---- MODULE Spec2Model ----
(***************************************************************************)
(* Model of the shielded-note transfer path of CipherPayService:           *)
(* createTransaction (note selection, sequential multi-note loop) and      *)
(* executeSingleTransfer (two-output split, output key assignment, SDK     *)
(* submission).  Amounts are JavaScript BigInt values, i.e. unbounded      *)
(* integers; keys are opaque field elements.                               *)
(***************************************************************************)
EXTENDS Integers, Sequences, FiniteSets, TLC

\* ---------------------------------------------------------------- bounds
\* longest spendable list the overview returns
MaxNotes == 3
\* largest value drawn for the 8 random bytes read as one integer
MaxRandom == 3
\* largest value drawn for the single random byte of the coin
MaxRandomByte == 3

\* amounts of the notes the overview may return
NoteAmounts == {0, 1, 10, 20, 25, 30, 50, 80, 2002}
\* amounts a caller may request
TransferAmounts == {0, 1, 25, 40, 50, 2002, 2040, 5000}
\* amounts of an explicitly passed inputNote
InputNoteAmounts == {0, 25, 2002}

\* ------------------------------------------------------------- constants
\* const minDust = 1000n
MinDust == 1000

\* keys (ownerCipherPayPubKey values); NoKey is a missing recipient argument
SenderKey == "senderKey"
OtherKey == "otherKey"
NoKey == "noKey"
Keys == {SenderKey, OtherKey}

\* absent inputNote argument (inputNote = null)
NoNote == [id |-> 0, amount |-> -1, ownerCipherPayPubKey |-> NoKey]

\* error messages thrown by createTransaction / executeSingleTransfer
ErrRecipientRequired == "Recipient public key is required"
ErrAmountNotPositive == "Amount must be greater than 0"
ErrSdkUnavailable == "SDK transfer function not available"
ErrIdentityNotFound == "Identity not found. Please authenticate first."
InsufficientBalance == "Available shield balance insufficient"
ErrNoSpendableNotes == "No spendable notes available. Please deposit funds first."
ErrInvalidNote == "Invalid input note structure"
ErrNoteTooSmall == "Insufficient balance in selected note"
ErrUpstream == "SDK transfer failed"
NoError == ""

VARIABLES
    pc,               \* position of the createTransaction call
    recipientPublicKey, \* argument
    amount,           \* argument: requested amount A
    inputNote,        \* argument: explicit input note or NoNote
    spendable,        \* result of getSpendableNotes()
    selectedNotes,    \* the selection
    i,                \* loop index of the multi-note loop (1-based)
    remainingAmount,  \* amount still owed to the recipient
    submitted,        \* transferParams handed to window.CipherPaySDK.transfer
    results,          \* records returned by executeSingleTransfer
    outcome,          \* error thrown to the caller, or NoError
    relayFailed       \* getSpendableNotes caught an overview/relay error

vars == <<pc, recipientPublicKey, amount, inputNote, spendable, selectedNotes, i,
          remainingAmount, submitted, results, outcome, relayFailed>>

\* localStorage and the envelope under test (src/lib/e2ee.ts)
VARIABLES
    keyStore,         \* localStorage["cps.encKeypair.v1"]
    identityStore,    \* localStorage["cipherpay_identity"]
    envelope,         \* the string given to decryptFromSenderForMe
    sealed,           \* what encryptForRecipient was called with, once it was
    tampered,         \* a bit of the sealed ciphertext was changed afterwards
    decrypted         \* outcome of decryptFromSenderForMe, once it was called

e2eeVars == <<envelope, sealed, tampered, decrypted>>
storeVars == <<keyStore, identityStore>>

\* the reconciler (src/services/accountOverviewService.js)
VARIABLES
    relayAnswer,      \* what the relay answers to GET /messages
    serviceAnswer,    \* what the overview service answers: which notes are spent
    decryptedNotes,   \* outcome of decryptMessages, once it was called
    overviews         \* the outcomes of the fetchAccountOverview runs so far

reconcileVars == <<relayAnswer, serviceAnswer, decryptedNotes, overviews>>

\* two createTransaction calls in flight against one backend
VARIABLES
    ledger,           \* the notes the backend holds for the user
    nullifiers,       \* ids of the notes the backend knows as spent
    calls             \* per call: its position, arguments and local variables

concurrentVars == <<ledger, nullifiers, calls>>

\* the message fetcher (src/services/accountOverviewService.js)
VARIABLES
    inFlightRequests, \* the module's Map from request URL to pending promise
    requests,         \* every fetch() issued to the relay, with its state
    fetchCalls        \* every fetchMessages call: its URL, promise and outcome

fetchVars == <<inFlightRequests, requests, fetchCalls>>

\* calls of the key functions of src/lib/e2ee.ts
VARIABLES
    ensured,          \* the ensureValidKeypair calls made, with their outcomes
    derivations       \* the deriveKeypairFromIdentity calls made, with their outcomes

keypairVars == <<ensured, derivations>>

\* deposits and the relay's message store (src/services/CipherPayService.js)
VARIABLES
    published,        \* the messages POST /api/v1/messages has stored so far
    deposits          \* the createDeposit calls made, the last one possibly running

publishVars == <<published, deposits>>

\* the overview a transfer selects from, and the messages the relay holds
VARIABLES
    accountOverview,  \* what getAccountOverviewFromBackend gave getSpendableNotes
    relayHeld         \* every message the relay holds for the user

overviewVars == <<accountOverview, relayHeld>>

\* the React context (src/contexts/CipherPayContext.jsx)
VARIABLES
    backendVersion,   \* counts the changes of the backend's messages and nullifiers
    refreshRuns,      \* the updateServiceStatus calls made, with their position
    contextState      \* balance, spendableNotes and allNotes as last set

refreshVars == <<backendVersion, refreshRuns, contextState>>

\* event monitoring of the service (src/services/CipherPayService.js)
VARIABLES
    eventMonitoringActive, \* this.eventMonitoringActive
    stopEventStream,       \* the stream this.stopEventStream closes, 0 for null
    streams                \* readyState of every EventSource created so far

monitorVars == <<eventMonitoringActive, stopEventStream, streams>>

lateVars == <<overviewVars, refreshVars, monitorVars>>

restVars == <<fetchVars, keypairVars, publishVars, lateVars>>

allVars == <<vars, storeVars, e2eeVars, reconcileVars, concurrentVars, restVars>>

\* a component that takes no part in the specification at hand rests in these
NotCalled == [kind |-> "notCalled"]
NoEnvelope == [kind |-> "none"]
StoreAbsent == [kind |-> "absent"]

StoreIdle == keyStore = StoreAbsent /\ identityStore = StoreAbsent

E2eeIdle ==
    envelope = NoEnvelope /\ sealed = NotCalled /\ tampered = FALSE /\ decrypted = NotCalled

ReconcileIdle ==
    /\ relayAnswer = NotCalled /\ serviceAnswer = NotCalled
    /\ decryptedNotes = NotCalled /\ overviews = <<>>

ConcurrentIdle == ledger = <<>> /\ nullifiers = {} /\ calls = <<>>

FetchIdle == inFlightRequests = {} /\ requests = <<>> /\ fetchCalls = <<>>

KeypairIdle == ensured = <<>> /\ derivations = <<>>

PublishIdle == published = {} /\ deposits = <<>>

OverviewIdle == accountOverview = NotCalled /\ relayHeld = <<>>

RefreshIdle ==
    backendVersion = 0 /\ refreshRuns = <<>> /\ contextState = NotCalled

MonitorIdle == eventMonitoringActive = FALSE /\ stopEventStream = 0 /\ streams = <<>>

LateIdle == OverviewIdle /\ RefreshIdle /\ MonitorIdle

RestIdle == FetchIdle /\ KeypairIdle /\ PublishIdle /\ LateIdle

\* ------------------------------------------------------- note selection
\* a spendable note as getSpendableNotes maps it; id is its position in the list
Note(k, a) == [id |-> k, amount |-> a, ownerCipherPayPubKey |-> SenderKey]

\* every list the overview can return, as mapped by getSpendableNotes
SpendableLists ==
    UNION {{[k \in 1..n |-> Note(k, f[k])] : f \in [1..n -> NoteAmounts]} : n \in 0..MaxNotes}

RECURSIVE SumAmounts(_)
SumAmounts(notes) ==
    IF notes = <<>> THEN 0 ELSE notes[1].amount + SumAmounts(Tail(notes))

\* spendable.reduce((sum, n) => sum + BigInt(n.amount), 0n)
TotalAvailable(notes) == SumAmounts(notes)

\* mutant: the last qualifying note instead of the first
FindSingleNoteLast(notes, A) ==
    LET hits == {k \in 1..Len(notes) : notes[k].amount >= A}
    IN IF hits = {} THEN 0 ELSE CHOOSE k \in hits : \A j \in hits : j <= k

\* mutant: the best-fitting (smallest qualifying) note instead of the first
FindSingleNoteBestFit(notes, A) ==
    LET hits == {k \in 1..Len(notes) : notes[k].amount >= A}
    IN IF hits = {} THEN 0
       ELSE CHOOSE k \in hits : \A j \in hits :
                notes[k].amount < notes[j].amount
                \/ (notes[k].amount = notes[j].amount /\ k <= j)

\* spendable.find(n => BigInt(n.amount) >= amount): index of the first hit, 0 if none
FindSingleNote(notes, A) ==
    LET hits == {k \in 1..Len(notes) : notes[k].amount >= A}
    IN IF hits = {} THEN 0 ELSE CHOOSE k \in hits : \A j \in hits : k <= j

\* insert n behind every element that does not sort after it (stable)
RECURSIVE InsertDesc(_, _)
InsertDesc(n, sorted) ==
    IF sorted = <<>> THEN <<n>>
    ELSE IF sorted[1].amount >= n.amount
         THEN <<sorted[1]>> \o InsertDesc(n, Tail(sorted))
         ELSE <<n>> \o sorted

RECURSIVE InsertAsc(_, _)
InsertAsc(n, sorted) ==
    IF sorted = <<>> THEN <<n>>
    ELSE IF sorted[1].amount <= n.amount
         THEN <<sorted[1]>> \o InsertAsc(n, Tail(sorted))
         ELSE <<n>> \o sorted

RECURSIVE SortAscFrom(_, _)
SortAscFrom(notes, acc) ==
    IF notes = <<>> THEN acc ELSE SortAscFrom(Tail(notes), InsertAsc(notes[1], acc))

\* mutant: comparator reversed (smallest first)
SortNotesAscending(notes) == SortAscFrom(notes, <<>>)

RECURSIVE SortDescFrom(_, _)
SortDescFrom(notes, acc) ==
    IF notes = <<>> THEN acc ELSE SortDescFrom(Tail(notes), InsertDesc(notes[1], acc))

\* [...spendable].sort((a, b) => b > a ? 1 : b < a ? -1 : 0): biggest first, stable
SortNotes(notes) == SortDescFrom(notes, <<>>)

\* for (const note of sortedNotes) { push; totalSelected += amount; if (>= amount) break }
RECURSIVE GreedyFrom(_, _, _, _)
GreedyFrom(sortedNotes, A, k, acc) ==
    IF k > Len(sortedNotes) THEN acc
    ELSE LET next == [selectedNotes |-> Append(acc.selectedNotes, sortedNotes[k]),
                      totalSelected |-> acc.totalSelected + sortedNotes[k].amount]
         IN IF next.totalSelected >= A THEN next
            ELSE GreedyFrom(sortedNotes, A, k + 1, next)

\* mutant: the loop breaks after its first iteration whatever the running total
GreedySelectFirstOnly(sortedNotes, A) ==
    IF sortedNotes = <<>> THEN [selectedNotes |-> <<>>, totalSelected |-> 0]
    ELSE [selectedNotes |-> <<sortedNotes[1]>>, totalSelected |-> sortedNotes[1].amount]

\* the greedy accumulation loop over the sorted notes
GreedySelect(sortedNotes, A) ==
    GreedyFrom(sortedNotes, A, 1, [selectedNotes |-> <<>>, totalSelected |-> 0])

\* mutant: the spendable.length === 0 test is missing
SelectFromSpendableNoEmptyTest(notes, A) ==
    IF TotalAvailable(notes) < A
    THEN [error |-> InsufficientBalance, selectedNotes |-> <<>>]
    ELSE LET singleNote == FindSingleNote(notes, A)
         IN IF singleNote # 0
            THEN [error |-> NoError, selectedNotes |-> <<notes[singleNote]>>]
            ELSE LET g == GreedySelect(SortNotes(notes), A)
                 IN IF g.totalSelected < A
                    THEN [error |-> InsufficientBalance, selectedNotes |-> g.selectedNotes]
                    ELSE [error |-> NoError, selectedNotes |-> g.selectedNotes]

\* the selection made from the spendable list (no explicit inputNote):
\* [error |-> message or NoError, selectedNotes |-> the selection]
SelectFromSpendable(notes, A) ==
    IF Len(notes) = 0
    THEN [error |-> ErrNoSpendableNotes, selectedNotes |-> <<>>]
    ELSE IF TotalAvailable(notes) < A
    THEN [error |-> InsufficientBalance, selectedNotes |-> <<>>]
    ELSE LET singleNote == FindSingleNote(notes, A)
         IN IF singleNote # 0
            THEN [error |-> NoError, selectedNotes |-> <<notes[singleNote]>>]
            ELSE LET g == GreedySelect(SortNotes(notes), A)
                 IN IF g.totalSelected < A
                    THEN [error |-> InsufficientBalance, selectedNotes |-> g.selectedNotes]
                    ELSE [error |-> NoError, selectedNotes |-> g.selectedNotes]

\* ------------------------------------------------------------ the split
\* const maxSplit = inputAmount - minDust
MaxSplit(inputAmount) == inputAmount - MinDust

\* mutant: the random offset is not shifted by minDust
ExactOut1AmountUnshifted(inputAmount, randomBigInt) ==
    IF MaxSplit(inputAmount) < MinDust
    THEN inputAmount \div 2
    ELSE randomBigInt % (MaxSplit(inputAmount) - MinDust + 1)

\* out1Amount of the exact-match case: half of a note too small to keep minDust on
\* both sides, otherwise minDust + (randomBigInt % range)
ExactOut1Amount(inputAmount, randomBigInt) ==
    IF MaxSplit(inputAmount) < MinDust
    THEN inputAmount \div 2
    ELSE LET range == MaxSplit(inputAmount) - MinDust + 1
         IN MinDust + (randomBigInt % range)

\* crypto.getRandomValues(new Uint8Array(1))[0] % 2 === 0
RecipientGetsOut1(randomByte) == randomByte % 2 = 0

\* mutant: both halves are computed as inputAmount / 2
ExactSplitTwoHalves(inputAmount, randomBigInt, randomByte) ==
    LET out1Amount == ExactOut1Amount(inputAmount, randomBigInt)
        out2Amount == IF MaxSplit(inputAmount) < MinDust
                      THEN inputAmount \div 2 ELSE inputAmount - out1Amount
        recipientGetsOut1 == RecipientGetsOut1(randomByte)
    IN [out1Amount |-> out1Amount, out2Amount |-> out2Amount,
        recipientGetsOut1 |-> recipientGetsOut1,
        recipientAmount |-> IF recipientGetsOut1 THEN out1Amount ELSE out2Amount,
        changeAmount |-> IF recipientGetsOut1 THEN out2Amount ELSE out1Amount]

\* CASE 1, transferAmount === inputAmount
ExactSplit(inputAmount, randomBigInt, randomByte) ==
    LET out1Amount == ExactOut1Amount(inputAmount, randomBigInt)
        out2Amount == inputAmount - out1Amount
        recipientGetsOut1 == RecipientGetsOut1(randomByte)
    IN [out1Amount |-> out1Amount, out2Amount |-> out2Amount,
        recipientGetsOut1 |-> recipientGetsOut1,
        recipientAmount |-> IF recipientGetsOut1 THEN out1Amount ELSE out2Amount,
        changeAmount |-> IF recipientGetsOut1 THEN out2Amount ELSE out1Amount]

\* mutant: the change is put first and the transfer second
PartialSplitChangeFirst(inputAmount, transferAmount) ==
    [out1Amount |-> inputAmount - transferAmount, out2Amount |-> transferAmount,
     recipientGetsOut1 |-> TRUE,
     recipientAmount |-> inputAmount - transferAmount,
     changeAmount |-> transferAmount]

\* CASE 2, transferAmount < inputAmount
PartialSplit(inputAmount, transferAmount) ==
    [out1Amount |-> transferAmount, out2Amount |-> inputAmount - transferAmount,
     recipientGetsOut1 |-> TRUE,
     recipientAmount |-> transferAmount,
     changeAmount |-> inputAmount - transferAmount]

\* mutant: the two ternaries choosing the output keys are exchanged
OutputKeysSwapped(recipientGetsOut1, recipientCipherPayPubKey, ownerKey) ==
    [out1 |-> IF recipientGetsOut1 THEN ownerKey ELSE recipientCipherPayPubKey,
     out2 |-> IF recipientGetsOut1 THEN recipientCipherPayPubKey ELSE ownerKey]

\* transferParams.out1/out2.recipientCipherPayPubKey
OutputKeys(recipientGetsOut1, recipientCipherPayPubKey, ownerKey) ==
    [out1 |-> IF recipientGetsOut1 THEN recipientCipherPayPubKey ELSE ownerKey,
     out2 |-> IF recipientGetsOut1 THEN ownerKey ELSE recipientCipherPayPubKey]

\* what one executeSingleTransfer call hands to the SDK (transferParams) together
\* with its local bookkeeping
TransferStep(note, transferAmount, recipientKey, randomBigInt, randomByte) ==
    LET s == IF transferAmount = note.amount
             THEN ExactSplit(note.amount, randomBigInt, randomByte)
             ELSE PartialSplit(note.amount, transferAmount)
        keys == OutputKeys(s.recipientGetsOut1, recipientKey, note.ownerCipherPayPubKey)
    IN [inputNote |-> note,
        transferAmount |-> transferAmount,
        out1 |-> [atoms |-> s.out1Amount, recipientCipherPayPubKey |-> keys.out1],
        out2 |-> [atoms |-> s.out2Amount, recipientCipherPayPubKey |-> keys.out2],
        recipientKey |-> recipientKey,
        recipientGetsOut1 |-> s.recipientGetsOut1,
        recipientAmount |-> s.recipientAmount,
        changeAmount |-> s.changeAmount]

\* mutant: every step transfers the full amount of its note
TransferAmountFullNote(remaining, noteAmount) == noteAmount

\* remainingAmount <= noteAmount ? remainingAmount : noteAmount
TransferAmountForThisNote(remaining, noteAmount) ==
    IF remaining <= noteAmount THEN remaining ELSE noteAmount

\* the amount passed to executeSingleTransfer for the note at the loop index
StepAmount ==
    IF Len(selectedNotes) > 1
    THEN TransferAmountForThisNote(remainingAmount, selectedNotes[i].amount)
    ELSE amount

\* ---------------------------------------------------------------- actions
InputNotes ==
    {[id |-> 0, amount |-> a, ownerCipherPayPubKey |-> k] :
        a \in InputNoteAmounts, k \in {SenderKey, NoKey}}

Init ==
    /\ pc = "idle"
    /\ recipientPublicKey = NoKey
    /\ amount = 0
    /\ inputNote = NoNote
    /\ spendable = <<>>
    /\ selectedNotes = <<>>
    /\ i = 1
    /\ remainingAmount = 0
    /\ submitted = <<>>
    /\ results = <<>>
    /\ outcome = NoError
    /\ relayFailed = FALSE

Throw(message) ==
    /\ pc' = "failed"
    /\ outcome' = message

\* createTransaction up to the await of getSpendableNotes (or, with an explicit
\* inputNote, up to the call of executeSingleTransfer)
CreateTransaction ==
    /\ pc = "idle"
    /\ \E rk \in Keys \cup {NoKey}, A \in TransferAmounts,
          note \in InputNotes \cup {NoNote},
          sdkAvailable \in BOOLEAN, identityFound \in BOOLEAN :
        IF rk = NoKey \/ A <= 0 \/ ~sdkAvailable \/ ~identityFound
        THEN /\ Throw(IF rk = NoKey THEN ErrRecipientRequired
                      ELSE IF A <= 0 THEN ErrAmountNotPositive
                      ELSE IF ~sdkAvailable THEN ErrSdkUnavailable
                      ELSE ErrIdentityNotFound)
             /\ UNCHANGED <<recipientPublicKey, amount, inputNote, selectedNotes>>
        ELSE /\ recipientPublicKey' = rk
             /\ amount' = A
             /\ inputNote' = note
             /\ IF note # NoNote
                THEN IF note.amount < A
                     THEN Throw(InsufficientBalance) /\ UNCHANGED selectedNotes
                     ELSE /\ selectedNotes' = <<note>>
                          /\ pc' = "selected"
                          /\ UNCHANGED outcome
                ELSE /\ pc' = "fetching"
                     /\ UNCHANGED <<selectedNotes, outcome>>
    /\ UNCHANGED <<spendable, i, remainingAmount, submitted, results, relayFailed>>
    /\ UNCHANGED <<storeVars, e2eeVars, reconcileVars, concurrentVars>>
    /\ UNCHANGED restVars

\* getSpendableNotes returns (an overview error is caught there and becomes []);
\* the selection is made from its result
SelectNotes ==
    /\ pc = "fetching"
    /\ \E notes \in SpendableLists, failed \in BOOLEAN :
        /\ failed => notes = <<>>
        /\ relayFailed' = failed
        /\ spendable' = notes
        /\ LET sel == SelectFromSpendable(notes, amount)
           IN IF sel.error # NoError
              THEN Throw(sel.error) /\ UNCHANGED <<selectedNotes, remainingAmount>>
              ELSE /\ selectedNotes' = sel.selectedNotes
                   /\ remainingAmount' =
                        IF Len(sel.selectedNotes) > 1 THEN amount ELSE remainingAmount
                   /\ pc' = "selected"
                   /\ UNCHANGED outcome
    /\ UNCHANGED <<recipientPublicKey, amount, inputNote, i, submitted, results>>
    /\ UNCHANGED <<storeVars, e2eeVars, reconcileVars, concurrentVars>>
    /\ UNCHANGED restVars

\* executeSingleTransfer for the note at the loop index, up to the SDK call
ExecuteSingleTransfer ==
    /\ pc = "selected"
    /\ LET note == selectedNotes[i]
           T == StepAmount
       IN IF note.amount = 0 \/ note.ownerCipherPayPubKey = NoKey
          THEN Throw(ErrInvalidNote) /\ UNCHANGED submitted
          ELSE IF note.amount < T
          THEN Throw(ErrNoteTooSmall) /\ UNCHANGED submitted
          ELSE /\ \E randomBigInt \in 0..MaxRandom, randomByte \in 0..MaxRandomByte :
                    submitted' = Append(submitted,
                        TransferStep(note, T, recipientPublicKey, randomBigInt, randomByte))
               /\ pc' = "inflight"
               /\ UNCHANGED outcome
    /\ UNCHANGED <<recipientPublicKey, amount, inputNote, spendable, selectedNotes, i,
                   remainingAmount, results, relayFailed>>
    /\ UNCHANGED <<storeVars, e2eeVars, reconcileVars, concurrentVars>>
    /\ UNCHANGED restVars

\* the record executeSingleTransfer returns for a completed step
StepResult(step) ==
    [recipient |-> step.recipientKey,
     amount |-> step.transferAmount,
     changeAmount |-> step.changeAmount]

\* mutant: the loop index is not advanced, the next step takes the same note again
TransferCompletesSameNote ==
    /\ pc = "inflight"
    /\ LET step == submitted[Len(submitted)]
       IN /\ results' = Append(results, StepResult(step))
          /\ IF Len(selectedNotes) > 1
             THEN /\ remainingAmount' = remainingAmount - step.transferAmount
                  /\ IF remainingAmount' <= 0
                     THEN pc' = "done"
                     ELSE pc' = "selected"
                  /\ UNCHANGED i
             ELSE /\ pc' = "done"
                  /\ UNCHANGED <<i, remainingAmount>>
    /\ UNCHANGED <<recipientPublicKey, amount, inputNote, spendable, selectedNotes,
                   submitted, outcome, relayFailed>>
    /\ UNCHANGED <<storeVars, e2eeVars, reconcileVars, concurrentVars>>
    /\ UNCHANGED restVars

\* window.CipherPaySDK.transfer resolves; the loop goes on or the call returns.
\* The onOut1NoteReady and onOut2NoteReady callbacks the SDK was given only log
\* the note: nothing is posted to the relay, published stays as it is.
TransferCompletes ==
    /\ pc = "inflight"
    /\ LET step == submitted[Len(submitted)]
       IN /\ results' = Append(results, StepResult(step))
          /\ IF Len(selectedNotes) > 1
             THEN /\ remainingAmount' = remainingAmount - step.transferAmount
                  /\ IF remainingAmount' <= 0 \/ i = Len(selectedNotes)
                     THEN pc' = "done" /\ UNCHANGED i
                     ELSE pc' = "selected" /\ i' = i + 1
             ELSE /\ pc' = "done"
                  /\ UNCHANGED <<i, remainingAmount>>
    /\ UNCHANGED <<recipientPublicKey, amount, inputNote, spendable, selectedNotes,
                   submitted, outcome, relayFailed>>
    /\ UNCHANGED <<storeVars, e2eeVars, reconcileVars, concurrentVars>>
    /\ UNCHANGED restVars

\* window.CipherPaySDK.transfer rejects; the error is rethrown to the caller
TransferFails ==
    /\ pc = "inflight"
    /\ Throw(ErrUpstream)
    /\ UNCHANGED <<recipientPublicKey, amount, inputNote, spendable, selectedNotes, i,
                   remainingAmount, submitted, results, relayFailed>>
    /\ UNCHANGED <<storeVars, e2eeVars, reconcileVars, concurrentVars>>
    /\ UNCHANGED restVars

Next ==
    \/ CreateTransaction
    \/ SelectNotes
    \/ ExecuteSingleTransfer
    \/ TransferCompletes
    \/ TransferFails

\* one createTransaction call; the other components rest
InitTransfer ==
    Init /\ StoreIdle /\ E2eeIdle /\ ReconcileIdle /\ ConcurrentIdle /\ RestIdle

Spec == InitTransfer /\ [][Next]_allVars

\* ------------------------------------------------------------ properties
\* the call passed validation, took no explicit inputNote and has made its selection
AfterSelection ==
    /\ amount > 0
    /\ inputNote = NoNote
    /\ pc \notin {"idle", "fetching"}

RECURSIVE AmountSum(_)
AmountSum(notes) ==
    IF Len(notes) = 0 THEN 0
    ELSE notes[Len(notes)].amount + AmountSum(SubSeq(notes, 1, Len(notes) - 1))

AmountsOf(notes) == [k \in 1..Len(notes) |-> notes[k].amount]

SingleNoteFits == \E k \in 1..Len(spendable) : spendable[k].amount >= amount

\* C1: whenever the spendable total is at least the requested amount A > 0, the
\* selection made without an explicit inputNote is non-empty, sums to at least A
\* and the call has not failed for lack of balance.
C1_SelectionCoversAmount ==
    (AfterSelection /\ AmountSum(spendable) >= amount) =>
        /\ selectedNotes # <<>>
        /\ AmountSum(selectedNotes) >= amount
        /\ outcome \notin {InsufficientBalance, ErrNoSpendableNotes}

C1_Witness ==
    /\ AfterSelection
    /\ pc = "selected"
    /\ AmountSum(spendable) >= amount
    /\ Len(selectedNotes) = 3
    /\ AmountSum(selectedNotes) >= amount

\* C2: whenever some spendable note has amount >= A, exactly one note is selected
\* and it is the first note of the spendable list, in list order, with amount >= A;
\* the selection is thereby fixed by the list and the amount.
C2_FirstFittingNoteSelected ==
    (AfterSelection /\ SingleNoteFits) =>
        \E k \in 1..Len(spendable) :
            /\ spendable[k].amount >= amount
            /\ \A j \in 1..(k - 1) : spendable[j].amount < amount
            /\ selectedNotes = <<spendable[k]>>

C2_Witness ==
    /\ AfterSelection
    /\ pc = "selected"
    /\ Len(spendable) = 3
    /\ spendable[1].amount < amount
    /\ spendable[2].amount > spendable[3].amount
    /\ spendable[3].amount > amount
    /\ selectedNotes = <<spendable[2]>>

C3_Case ==
    /\ AfterSelection
    /\ AmountsOf(spendable) = <<30, 80, 50>>
    /\ amount = 50

\* C3 as stated: notes [30, 80, 50] and amount 50 select only the note of amount 50.
C3_SelectsNoteOf50 ==
    C3_Case => AmountsOf(selectedNotes) = <<50>>

\* C3 amended: notes [30, 80, 50] and amount 50 select only the note of amount 80,
\* the first note of the list whose amount is at least 50.
C3_SelectsNoteOf80 ==
    C3_Case => selectedNotes = <<spendable[2]>> /\ AmountsOf(selectedNotes) = <<80>>

C3_Witness ==
    C3_Case /\ pc = "selected"

\* C4: when no single spendable note covers A but the total does, the selection is
\* the shortest covering prefix of the notes in descending order of amount: its
\* notes are distinct spendable notes with non-increasing amounts, no unselected
\* note is larger than a selected one, its sum is >= A and its sum without the
\* last note is < A; notes [10, 20, 25] with A = 40 select [25, 20].
C4_GreedyPrefixIsMinimal ==
    (AfterSelection /\ ~SingleNoteFits /\ AmountSum(spendable) >= amount) =>
        LET n == Len(selectedNotes)
            chosen == {selectedNotes[k].id : k \in 1..n}
        IN /\ n >= 2
           /\ \A k \in 1..n : selectedNotes[k] = spendable[selectedNotes[k].id]
           /\ Cardinality(chosen) = n
           /\ \A k \in 1..(n - 1) : selectedNotes[k].amount >= selectedNotes[k + 1].amount
           /\ \A j \in 1..Len(spendable) :
                j \notin chosen => spendable[j].amount <= selectedNotes[n].amount
           /\ AmountSum(selectedNotes) >= amount
           /\ AmountSum(SubSeq(selectedNotes, 1, n - 1)) < amount
           /\ (AmountsOf(spendable) = <<10, 20, 25>> /\ amount = 40)
                => AmountsOf(selectedNotes) = <<25, 20>>

C4_Witness ==
    /\ AfterSelection
    /\ pc = "selected"
    /\ AmountsOf(spendable) = <<10, 20, 25>>
    /\ amount = 40
    /\ AmountsOf(selectedNotes) = <<25, 20>>

Steps == {submitted[k] : k \in 1..Len(submitted)}

ExactMatch(step) == step.transferAmount = step.inputNote.amount
LastSubmitted == submitted[Len(submitted)]

\* the call is about to run executeSingleTransfer on a note equal to the step amount
AboutToSplitExactly ==
    /\ pc = "selected"
    /\ selectedNotes[i].amount > 0
    /\ selectedNotes[i].ownerCipherPayPubKey # NoKey
    /\ StepAmount = selectedNotes[i].amount

\* C6: in every executed transfer step with 0 < T <= N the two output amounts add
\* up to the input amount, and so do recipientAmount and changeAmount.
C6_SplitConservesAmount ==
    \A step \in Steps :
        /\ 0 < step.transferAmount
        /\ step.transferAmount <= step.inputNote.amount
        /\ step.out1.atoms + step.out2.atoms = step.inputNote.amount
        /\ step.recipientAmount + step.changeAmount = step.inputNote.amount

C6_Witness ==
    /\ pc = "done"
    /\ amount = 2040
    /\ Len(submitted) = 3
    /\ \E step \in Steps : ExactMatch(step) /\ step.inputNote.amount >= 2 * MinDust
    /\ \E step \in Steps : ExactMatch(step) /\ step.inputNote.amount = 25
                           /\ step.out1.atoms = 12 /\ step.out2.atoms = 13
    /\ \E step \in Steps : ~ExactMatch(step)

\* C7: in the partial case (T < N) out1 = T goes to the recipient and out2 = N - T
\* goes back to the owner of the input note, whatever the random draws.
C7_PartialSplitDeterministic ==
    \A step \in Steps :
        step.transferAmount < step.inputNote.amount =>
            /\ step.out1.atoms = step.transferAmount
            /\ step.out1.recipientCipherPayPubKey = step.recipientKey
            /\ step.out2.atoms = step.inputNote.amount - step.transferAmount
            /\ step.out2.recipientCipherPayPubKey = step.inputNote.ownerCipherPayPubKey
            /\ step.recipientAmount = step.transferAmount
            /\ step.changeAmount = step.inputNote.amount - step.transferAmount

C7_Witness ==
    /\ pc = "inflight"
    /\ LastSubmitted.inputNote.amount = 80
    /\ LastSubmitted.transferAmount = 50
    /\ LastSubmitted.recipientKey = OtherKey
    /\ LastSubmitted.out1.atoms = 50
    /\ LastSubmitted.out2.atoms = 30

\* C8: in the exact-match case (T = N) with N >= 2*minDust both outputs lie in
\* [minDust, N - minDust] with out2 = N - out1, and every value of that range can
\* be drawn as out1; with N < 2*minDust out1 = floor(N/2) and out2 = N - out1.
C8_ExactSplitRange ==
    /\ \A step \in Steps :
        ExactMatch(step) =>
            LET N == step.inputNote.amount
            IN /\ step.out2.atoms = N - step.out1.atoms
               /\ IF N >= 2 * MinDust
                  THEN /\ step.out1.atoms \in MinDust..(N - MinDust)
                       /\ step.out2.atoms \in MinDust..(N - MinDust)
                  ELSE step.out1.atoms = N \div 2
    /\ (AboutToSplitExactly /\ selectedNotes[i].amount >= 2 * MinDust) =>
        \A v \in MinDust..(selectedNotes[i].amount - MinDust) :
            ENABLED (ExecuteSingleTransfer /\ submitted'[Len(submitted')].out1.atoms = v)

C8_Witness ==
    /\ pc = "inflight"
    /\ ExactMatch(LastSubmitted)
    /\ LastSubmitted.inputNote.amount = 2002
    /\ LastSubmitted.out1.atoms = 1002
    /\ LastSubmitted.out2.atoms = 1000

\* C9: in every transfer step one output carries the recipient's key and the other
\* the key of the input note's owner, recipientAmount is the amount of the output
\* carrying the recipient's key and changeAmount that of the other; in the partial
\* case the recipient's output is out1, in the exact-match case either is possible.
C9_OutputAssignment ==
    /\ \A step \in Steps :
        LET owner == step.inputNote.ownerCipherPayPubKey
        IN /\ IF step.recipientGetsOut1
              THEN /\ step.out1.recipientCipherPayPubKey = step.recipientKey
                   /\ step.out2.recipientCipherPayPubKey = owner
                   /\ step.recipientAmount = step.out1.atoms
                   /\ step.changeAmount = step.out2.atoms
              ELSE /\ step.out1.recipientCipherPayPubKey = owner
                   /\ step.out2.recipientCipherPayPubKey = step.recipientKey
                   /\ step.recipientAmount = step.out2.atoms
                   /\ step.changeAmount = step.out1.atoms
           /\ ~ExactMatch(step) => step.recipientGetsOut1
    /\ AboutToSplitExactly =>
        \A b \in BOOLEAN :
            ENABLED (ExecuteSingleTransfer
                     /\ submitted'[Len(submitted')].recipientGetsOut1 = b)

C9_Witness ==
    /\ pc = "inflight"
    /\ ExactMatch(LastSubmitted)
    /\ LastSubmitted.recipientKey = OtherKey
    /\ ~LastSubmitted.recipientGetsOut1
    /\ LastSubmitted.out1.recipientCipherPayPubKey = SenderKey
    /\ LastSubmitted.out2.recipientCipherPayPubKey = OtherKey

\* C10: in the exact-match case (T = N) the amount assigned to the recipient is
\* strictly less than T and the sender keeps the complement.
C10_RecipientGetsLessThanRequested ==
    \A step \in Steps :
        ExactMatch(step) =>
            /\ step.recipientAmount < step.transferAmount
            /\ step.changeAmount = step.inputNote.amount - step.recipientAmount

\* C11: the record returned for a transfer step reports as amount the amount
\* assigned to the recipient's output and as changeAmount the amount returned to
\* the sender, so that amount + changeAmount is the input note's amount.
C11_ResultReportsDeliveredAmount ==
    \A k \in 1..Len(results) :
        /\ results[k].amount = submitted[k].recipientAmount
        /\ results[k].changeAmount = submitted[k].changeAmount
        /\ results[k].amount + results[k].changeAmount = submitted[k].inputNote.amount

\* a plan of more than one note has been selected
MultiNotePlan == pc \in {"selected", "inflight", "done", "failed"} /\ Len(selectedNotes) > 1

RECURSIVE TransferredBefore(_)
TransferredBefore(k) ==
    IF k <= 1 THEN 0 ELSE submitted[k - 1].transferAmount + TransferredBefore(k - 1)

Min(a, b) == IF a <= b THEN a ELSE b

\* C12: in a multi-note transfer the owed counter starts at A, every step transfers
\* min(counter, amount of its note) and the counter drops by exactly the amounts of
\* the completed steps; it is never negative, it is 0 exactly when the plan has
\* completed, and a completed plan has executed one step per selected note.
C12_OwedCounter ==
    MultiNotePlan =>
        /\ remainingAmount = amount - TransferredBefore(Len(results) + 1)
        /\ \A k \in 1..Len(submitted) :
             submitted[k].transferAmount =
                Min(amount - TransferredBefore(k), submitted[k].inputNote.amount)
        /\ remainingAmount >= 0
        /\ (remainingAmount = 0) <=> (pc = "done")
        /\ pc = "done" => Len(results) = Len(selectedNotes)

C12_Witness ==
    /\ MultiNotePlan
    /\ pc = "done"
    /\ Len(selectedNotes) = 3
    /\ Len(results) = 3
    /\ remainingAmount = 0
    /\ submitted[3].transferAmount < submitted[3].inputNote.amount

\* C13: the steps of a multi-note transfer run one after the other in selection
\* order: a step is handed to the SDK only when every earlier step has completed
\* successfully, step k spends selected note k and no note is the input of two steps.
C13_StepsSequential ==
    MultiNotePlan =>
        /\ Len(submitted) \in {Len(results), Len(results) + 1}
        /\ Len(submitted) = Len(results) + 1 =>
              \/ pc = "inflight"
              \/ (pc = "failed" /\ outcome = ErrUpstream)
        /\ pc = "selected" => i = Len(results) + 1
        /\ Len(submitted) <= Len(selectedNotes)
        /\ \A k \in 1..Len(submitted) : submitted[k].inputNote = selectedNotes[k]
        /\ \A j, k \in 1..Len(submitted) :
             j # k => submitted[j].inputNote.id # submitted[k].inputNote.id

C13_Witness ==
    /\ MultiNotePlan
    /\ pc = "inflight"
    /\ Len(submitted) = 3
    /\ Len(results) = 2

\* ---------------------------------------------------------------------------
\* Two createTransaction calls in flight against one backend
\* ---------------------------------------------------------------------------

Callers == {1, 2}

ConcurrentAmounts == {25, 50, 60}

ConcurrentLedgers ==
    {<<Note(1, 50)>>, <<Note(1, 30), Note(2, 20)>>, <<Note(1, 50), Note(2, 30)>>}

CallIdle ==
    [pc |-> "idle", amount |-> 0, spendable |-> <<>>, selectedNotes |-> <<>>, i |-> 1,
     remainingAmount |-> 0, submitted |-> <<>>, results |-> <<>>, outcome |-> NoError]

\* the notes of the overview that are not marked spent, in the overview's order
RECURSIVE Unspent(_, _)
Unspent(notes, spentIds) ==
    IF notes = <<>> THEN <<>>
    ELSE IF notes[1].id \in spentIds
         THEN Unspent(Tail(notes), spentIds)
         ELSE <<notes[1]>> \o Unspent(Tail(notes), spentIds)

CallThrows(c, message) ==
    calls' = [calls EXCEPT ![c].pc = "failed", ![c].outcome = message]

\* ids of the notes the other call has handed to the SDK so far
SubmittedElsewhere(c) ==
    {calls[d].submitted[k].inputNote.id : <<d, k>> \in
        {p \in (Callers \ {c}) \X (1..MaxNotes) : p[2] <= Len(calls[p[1]].submitted)}}

InitConcurrent ==
    /\ Init /\ StoreIdle /\ E2eeIdle /\ ReconcileIdle /\ RestIdle
    /\ ledger \in ConcurrentLedgers
    /\ nullifiers = {}
    /\ calls = [c \in Callers |-> CallIdle]

\* createTransaction of one call, up to the await of getSpendableNotes
CallCreateTransaction(c) ==
    /\ calls[c].pc = "idle"
    /\ \E A \in ConcurrentAmounts :
        calls' = [calls EXCEPT ![c].pc = "fetching", ![c].amount = A]
    /\ UNCHANGED <<ledger, nullifiers>>
    /\ UNCHANGED <<vars, storeVars, e2eeVars, reconcileVars>>
    /\ UNCHANGED restVars

\* getSpendableNotes returns to one call, which selects from what it got
CallSelectNotes(c) ==
    /\ calls[c].pc = "fetching"
    /\ LET notes == Unspent(ledger, nullifiers)
           sel == SelectFromSpendable(notes, calls[c].amount)
       IN IF sel.error # NoError
          THEN calls' = [calls EXCEPT ![c].pc = "failed", ![c].outcome = sel.error,
                                      ![c].spendable = notes]
          ELSE calls' = [calls EXCEPT
                    ![c].pc = "selected",
                    ![c].spendable = notes,
                    ![c].selectedNotes = sel.selectedNotes,
                    ![c].remainingAmount =
                        IF Len(sel.selectedNotes) > 1 THEN calls[c].amount ELSE 0]
    /\ UNCHANGED <<ledger, nullifiers>>
    /\ UNCHANGED <<vars, storeVars, e2eeVars, reconcileVars>>
    /\ UNCHANGED restVars

CallStepAmount(c) ==
    IF Len(calls[c].selectedNotes) > 1
    THEN TransferAmountForThisNote(calls[c].remainingAmount,
                                   calls[c].selectedNotes[calls[c].i].amount)
    ELSE calls[c].amount

\* mutant: a note another call has already handed to the SDK is refused
CallExecuteSingleTransferLocked(c) ==
    /\ calls[c].pc = "selected"
    /\ LET note == calls[c].selectedNotes[calls[c].i]
           T == CallStepAmount(c)
       IN IF note.amount = 0 \/ note.ownerCipherPayPubKey = NoKey
          THEN CallThrows(c, ErrInvalidNote)
          ELSE IF note.amount < T
          THEN CallThrows(c, ErrNoteTooSmall)
          ELSE IF note.id \in SubmittedElsewhere(c)
          THEN CallThrows(c, ErrUpstream)
          ELSE \E randomBigInt \in 0..MaxRandom, randomByte \in 0..MaxRandomByte :
                 calls' = [calls EXCEPT
                    ![c].pc = "inflight",
                    ![c].submitted = Append(calls[c].submitted,
                        TransferStep(note, T, OtherKey, randomBigInt, randomByte))]
    /\ UNCHANGED <<ledger, nullifiers>>
    /\ UNCHANGED <<vars, storeVars, e2eeVars, reconcileVars>>
    /\ UNCHANGED restVars

\* executeSingleTransfer of one call for the note at its loop index
CallExecuteSingleTransfer(c) ==
    /\ calls[c].pc = "selected"
    /\ LET note == calls[c].selectedNotes[calls[c].i]
           T == CallStepAmount(c)
       IN IF note.amount = 0 \/ note.ownerCipherPayPubKey = NoKey
          THEN CallThrows(c, ErrInvalidNote)
          ELSE IF note.amount < T
          THEN CallThrows(c, ErrNoteTooSmall)
          ELSE \E randomBigInt \in 0..MaxRandom, randomByte \in 0..MaxRandomByte :
                 calls' = [calls EXCEPT
                    ![c].pc = "inflight",
                    ![c].submitted = Append(calls[c].submitted,
                        TransferStep(note, T, OtherKey, randomBigInt, randomByte))]
    /\ UNCHANGED <<ledger, nullifiers>>
    /\ UNCHANGED <<vars, storeVars, e2eeVars, reconcileVars>>
    /\ UNCHANGED restVars

\* the SDK call of one call resolves; upstream records the input note as spent
CallTransferCompletes(c) ==
    /\ calls[c].pc = "inflight"
    /\ LET step == calls[c].submitted[Len(calls[c].submitted)]
           multi == Len(calls[c].selectedNotes) > 1
           left == calls[c].remainingAmount - step.transferAmount
           last == ~multi \/ left <= 0 \/ calls[c].i = Len(calls[c].selectedNotes)
       IN /\ calls' = [calls EXCEPT
                ![c].results = Append(calls[c].results, StepResult(step)),
                ![c].remainingAmount = IF multi THEN left ELSE calls[c].remainingAmount,
                ![c].pc = IF last THEN "done" ELSE "selected",
                ![c].i = IF last THEN calls[c].i ELSE calls[c].i + 1]
          /\ nullifiers' = nullifiers \cup {step.inputNote.id}
    /\ UNCHANGED ledger
    /\ UNCHANGED <<vars, storeVars, e2eeVars, reconcileVars>>
    /\ UNCHANGED restVars

\* the SDK call of one call rejects; the error is rethrown to that caller
CallTransferFails(c) ==
    /\ calls[c].pc = "inflight"
    /\ CallThrows(c, ErrUpstream)
    /\ UNCHANGED <<ledger, nullifiers>>
    /\ UNCHANGED <<vars, storeVars, e2eeVars, reconcileVars>>
    /\ UNCHANGED restVars

NextConcurrent ==
    \/ \E c \in Callers : CallCreateTransaction(c)
    \/ \E c \in Callers : CallSelectNotes(c)
    \/ \E c \in Callers : CallExecuteSingleTransfer(c)
    \/ \E c \in Callers : CallTransferCompletes(c)
    \/ \E c \in Callers : CallTransferFails(c)

SpecConcurrent == InitConcurrent /\ [][NextConcurrent]_allVars

\* C14: createTransaction takes no lock and keeps no record of notes in flight:
\* a call whose next note has already been handed to the SDK by another call,
\* and which passes the per-note checks, can still hand it to the SDK itself.
C14_NoDoubleSpendGuard ==
    \A c \in Callers :
        (/\ calls[c].pc = "selected"
         /\ calls[c].selectedNotes[calls[c].i].id \in SubmittedElsewhere(c)
         /\ calls[c].selectedNotes[calls[c].i].amount >= CallStepAmount(c))
        => ENABLED (CallExecuteSingleTransfer(c) /\ calls'[c].pc = "inflight")

\* both calls selected the same note from the same spendable list and both
\* handed it to the SDK
C14_Witness ==
    /\ calls[1].spendable = calls[2].spendable
    /\ calls[1].pc = "inflight" /\ calls[2].pc = "inflight"
    /\ calls[1].submitted[1].inputNote = calls[2].submitted[1].inputNote

\* ---------------------------------------------------------------------------
\* End-to-end encryption of note payloads (src/lib/e2ee.ts)
\* ---------------------------------------------------------------------------

KeyLength == 32
NonceLength == 24
BoxOverhead == 16
TextLength == 40
MaxCtBit == 3
MaxFreshSeed == 2

\* JavaScript values, each a record with a kind
JsNull == [kind |-> "null"]
JsUndefined == [kind |-> "undefined"]
JsNaN == [kind |-> "nan"]
BigIntValue(k) == [kind |-> "bigint", n |-> k]
JsBigInt == BigIntValue(1)
JsNumber(k) == [kind |-> "number", n |-> k]

\* strings: JSON text of a value, and text that is not JSON
JsonText(value) == [kind |-> "json", value |-> value]
NonJsonText == [kind |-> "text"]

\* JSON.stringify: undefined has no JSON text, NaN is written as null, a BigInt throws
JsonStringify(value) ==
    IF value.kind = "bigint" THEN [threw |-> TRUE, text |-> JsUndefined]
    ELSE IF value.kind = "undefined" THEN [threw |-> FALSE, text |-> JsUndefined]
    ELSE IF value.kind = "nan" THEN [threw |-> FALSE, text |-> JsonText(JsNull)]
    ELSE [threw |-> FALSE, text |-> JsonText(value)]

\* JSON.parse throws on text that is not JSON
JsonParse(text) ==
    IF text.kind = "json"
    THEN [threw |-> FALSE, value |-> text.value]
    ELSE [threw |-> TRUE, value |-> JsNull]

\* byte arrays
Seed(origin, k) == [origin |-> origin, n |-> k]
PublicKey(seed) == [kind |-> "key", part |-> "pk", seed |-> seed, len |-> KeyLength]
SecretKey(seed) == [kind |-> "key", part |-> "sk", seed |-> seed, len |-> KeyLength]
Nonce(k) == [kind |-> "nonce", id |-> k, len |-> NonceLength]
JunkBytes(len) == [kind |-> "junk", len |-> len]
Utf8(text) == [kind |-> "utf8", text |-> text, len |-> TextLength]
NoBytes == [kind |-> "none", len |-> 0]

\* new TextEncoder().encode(s): an undefined argument encodes the empty string
TextEncode(text) == IF text.kind = "undefined" THEN Utf8(NonJsonText) ELSE Utf8(text)

\* new TextDecoder().decode(bytes)
TextDecode(u8) == IF u8.kind = "utf8" THEN u8.text ELSE NonJsonText

\* base64 strings (browser path: btoa / atob, atob throws on what is not base64)
NotBase64 == [kind |-> "notb64"]
U8ToB64(u8) == [kind |-> "b64", u8 |-> u8]
B64ToU8(b64) ==
    IF b64.kind = "b64"
    THEN [threw |-> FALSE, u8 |-> b64.u8]
    ELSE [threw |-> TRUE, u8 |-> NoBytes]
Btoa(text) == U8ToB64(Utf8(text))

\* nacl.box.keyPair.fromSecretKey and nacl.box.keyPair
KeyPairFromSecretKey(seed) == [publicKey |-> PublicKey(seed), secretKey |-> SecretKey(seed)]

\* nacl.box: throws on a key or nonce of the wrong size
NaclBox(pt, nonce, theirPublicKey, mySecretKey) ==
    IF theirPublicKey.len # KeyLength \/ mySecretKey.len # KeyLength
       \/ nonce.len # NonceLength
    THEN [threw |-> TRUE, ct |-> NoBytes]
    ELSE [threw |-> FALSE,
          ct |-> [kind |-> "box", pt |-> pt, nonce |-> nonce,
                  to |-> theirPublicKey, from |-> mySecretKey,
                  flipped |-> 0, len |-> pt.len + BoxOverhead]]

\* mutant: the authenticator of the box is not verified
NaclBoxOpenUnauthenticated(ct, nonce, theirPublicKey, mySecretKey) ==
    IF theirPublicKey.len # KeyLength \/ mySecretKey.len # KeyLength
       \/ nonce.len # NonceLength
    THEN [threw |-> TRUE, pt |-> NoBytes]
    ELSE IF /\ ct.kind = "box"
            /\ ct.nonce = nonce
            /\ mySecretKey.kind = "key" /\ mySecretKey.part = "sk"
            /\ ct.to = PublicKey(mySecretKey.seed)
            /\ theirPublicKey = PublicKey(ct.from.seed)
         THEN [threw |-> FALSE, pt |-> ct.pt]
         ELSE [threw |-> FALSE, pt |-> NoBytes]

\* nacl.box.open: throws on a key or nonce of the wrong size, returns null unless
\* the box is intact and was made for this nonce and this pair of keys
NaclBoxOpen(ct, nonce, theirPublicKey, mySecretKey) ==
    IF theirPublicKey.len # KeyLength \/ mySecretKey.len # KeyLength
       \/ nonce.len # NonceLength
    THEN [threw |-> TRUE, pt |-> NoBytes]
    ELSE IF /\ ct.kind = "box"
            /\ ct.flipped = 0
            /\ ct.nonce = nonce
            /\ mySecretKey.kind = "key" /\ mySecretKey.part = "sk"
            /\ ct.to = PublicKey(mySecretKey.seed)
            /\ theirPublicKey = PublicKey(ct.from.seed)
         THEN [threw |-> FALSE, pt |-> ct.pt]
         ELSE [threw |-> FALSE, pt |-> NoBytes]

\* the stored form of a keypair
KeypairB64(publicKey, secretKey) ==
    [kind |-> "keypair", publicKeyB64 |-> publicKey, secretKeyB64 |-> secretKey]

EncodedKeyPair(seed) ==
    KeypairB64(U8ToB64(PublicKey(seed)), U8ToB64(SecretKey(seed)))

\* deriveKeypairFromIdentity; the scalars of the model lie below 2^256 - 1, where
\* the reduction of the private key leaves it as it is
DeriveKeypairFromIdentity(privKey) == EncodedKeyPair(Seed("identity", privKey))

\* the privKey of a stored identity: a hex string, some other string, or missing
PrivKeyHex(k) == [kind |-> "hex", n |-> k]
PrivKeyOther == [kind |-> "other"]
StoredIdentity(privKey) == JsonText([kind |-> "identity", privKey |-> privKey])

NoIdentity == [kind |-> "null", privKey |-> 0]

GetCipherPayIdentity(stored, storageWorks) ==
    IF ~storageWorks \/ stored.kind = "absent" THEN NoIdentity
    ELSE IF JsonParse(stored).threw THEN NoIdentity
    ELSE LET privKey == JsonParse(stored).value.privKey
         IN IF privKey.kind = "undefined" THEN NoIdentity
            ELSE [kind |-> "identity",
                  privKey |-> IF privKey.kind = "hex" THEN privKey.n ELSE 0]

\* mutant: the stored keypair is never looked at, every call makes a new one
EnsureValidKeypairRegenerating(store, storedIdentity, freshSeed, storageWorks) ==
    LET identity == GetCipherPayIdentity(storedIdentity, storageWorks)
        derived == DeriveKeypairFromIdentity(identity.privKey)
        fresh == EncodedKeyPair(Seed("random", freshSeed))
    IN IF ~storageWorks
       THEN [threw |-> TRUE, keypair |-> JsNull, store |-> store]
       ELSE IF identity.kind = "identity" /\ identity.privKey # 0
       THEN [threw |-> FALSE, keypair |-> derived, store |-> JsonText(derived)]
       ELSE [threw |-> FALSE, keypair |-> fresh, store |-> JsonText(fresh)]

\* mutant: the derived keypair is returned without being stored
EnsureValidKeypairUnstored(store, storedIdentity, freshSeed, storageWorks) ==
    LET parsed == JsonParse(store)
        valid == /\ store.kind # "absent"
                 /\ ~parsed.threw
                 /\ parsed.value.kind = "keypair"
                 /\ parsed.value.publicKeyB64.kind = "b64"
                 /\ parsed.value.secretKeyB64.kind = "b64"
                 /\ parsed.value.publicKeyB64.u8.len = KeyLength
                 /\ parsed.value.secretKeyB64.u8.len = KeyLength
        identity == GetCipherPayIdentity(storedIdentity, storageWorks)
        derived == DeriveKeypairFromIdentity(identity.privKey)
        fresh == EncodedKeyPair(Seed("random", freshSeed))
    IN IF ~storageWorks
       THEN [threw |-> TRUE, keypair |-> JsNull, store |-> store]
       ELSE IF valid
       THEN [threw |-> FALSE, keypair |-> parsed.value, store |-> store]
       ELSE IF identity.kind = "identity" /\ identity.privKey # 0
       THEN [threw |-> FALSE, keypair |-> derived, store |-> store]
       ELSE [threw |-> FALSE, keypair |-> fresh, store |-> JsonText(fresh)]

\* ensureValidKeypair: the keypair it returns and the key store it leaves
EnsureValidKeypair(store, storedIdentity, freshSeed, storageWorks) ==
    LET parsed == JsonParse(store)
        shaped == /\ store.kind # "absent"
                  /\ ~parsed.threw
                  /\ parsed.value.kind = "keypair"
                  /\ parsed.value.publicKeyB64.kind # "undefined"
                  /\ parsed.value.secretKeyB64.kind # "undefined"
        decodedPub == B64ToU8(parsed.value.publicKeyB64)
        decodedSec == B64ToU8(parsed.value.secretKeyB64)
        decodable == shaped /\ ~decodedPub.threw /\ ~decodedSec.threw
        valid == /\ decodable
                 /\ decodedPub.u8.len = KeyLength
                 /\ decodedSec.u8.len = KeyLength
        identity == GetCipherPayIdentity(storedIdentity, storageWorks)
        derived == DeriveKeypairFromIdentity(identity.privKey)
        fresh == EncodedKeyPair(Seed("random", freshSeed))
    IN IF ~storageWorks
       THEN [threw |-> TRUE, keypair |-> JsNull, store |-> store]
       ELSE IF valid
       THEN [threw |-> FALSE, keypair |-> parsed.value, store |-> store]
       ELSE IF identity.kind = "identity" /\ identity.privKey # 0
       THEN [threw |-> FALSE, keypair |-> derived, store |-> JsonText(derived)]
       ELSE [threw |-> FALSE, keypair |-> fresh, store |-> JsonText(fresh)]

\* the envelope object and its wire form
Envelope(v, epk, n, ct) == [kind |-> "envelope", v |-> v, epk |-> epk, n |-> n, ct |-> ct]

\* mutant: the envelope is written with another version number
EncryptForRecipientVersion2(recipientPubB64, obj, ephSeed, nonceId) ==
    LET recipientPk == B64ToU8(recipientPubB64)
        eph == KeyPairFromSecretKey(Seed("ephemeral", ephSeed))
        nonce == Nonce(nonceId)
        text == JsonStringify(obj)
        pt == TextEncode(text.text)
        box == NaclBox(pt, nonce, recipientPk.u8, eph.secretKey)
    IN IF recipientPk.threw \/ text.threw \/ box.threw
       THEN [threw |-> TRUE, value |-> JsUndefined]
       ELSE [threw |-> FALSE,
             value |-> Btoa(JsonText(Envelope(2, U8ToB64(eph.publicKey), U8ToB64(nonce),
                                              U8ToB64(box.ct))))]

\* encryptForRecipient: nothing in it is caught
EncryptForRecipient(recipientPubB64, obj, ephSeed, nonceId) ==
    LET recipientPk == B64ToU8(recipientPubB64)
        eph == KeyPairFromSecretKey(Seed("ephemeral", ephSeed))
        nonce == Nonce(nonceId)
        text == JsonStringify(obj)
        pt == TextEncode(text.text)
        box == NaclBox(pt, nonce, recipientPk.u8, eph.secretKey)
    IN IF recipientPk.threw \/ text.threw \/ box.threw
       THEN [threw |-> TRUE, value |-> JsUndefined]
       ELSE [threw |-> FALSE,
             value |-> Btoa(JsonText(Envelope(1, U8ToB64(eph.publicKey), U8ToB64(nonce),
                                              U8ToB64(box.ct))))]

\* the body of the try block of decryptFromSenderForMe
DecryptBody(ciphertextB64, store, storedIdentity, freshSeed, storageWorks) ==
    LET decoded == B64ToU8(ciphertextB64)
        env == JsonParse(TextDecode(decoded.u8))
        epk == B64ToU8(env.value.epk)
        nonce == B64ToU8(env.value.n)
        ct == B64ToU8(env.value.ct)
        keypair == EnsureValidKeypair(store, storedIdentity, freshSeed, storageWorks)
        sk == B64ToU8(keypair.keypair.secretKeyB64)
        opened == NaclBoxOpen(ct.u8, nonce.u8, epk.u8, sk.u8)
        result == JsonParse(TextDecode(opened.pt))
        Threw(st) == [threw |-> TRUE, value |-> JsNull, store |-> st]
        Returned(value, st) == [threw |-> FALSE, value |-> value, store |-> st]
    IN IF decoded.threw \/ env.threw THEN Threw(store)
       ELSE IF env.value.kind = "null" THEN Returned(JsNull, store)
       ELSE IF env.value.kind # "envelope" THEN Returned(JsNull, store)
       ELSE IF env.value.v # 1 THEN Returned(JsNull, store)
       ELSE IF epk.threw \/ nonce.threw \/ ct.threw THEN Threw(store)
       ELSE IF keypair.threw THEN Threw(keypair.store)
       ELSE IF sk.threw \/ opened.threw THEN Threw(keypair.store)
       ELSE IF opened.pt.kind = "none" THEN Returned(JsNull, keypair.store)
       ELSE IF result.threw THEN Threw(keypair.store)
       ELSE IF result.value.kind = "null" THEN Threw(keypair.store)
       ELSE Returned(result.value, keypair.store)

\* no catch: what the body throws reaches the caller
Uncaught(body) == [returned |-> body.value, raised |-> body.threw, store |-> body.store]

\* catch (error) { ... return null }
CaughtAsNull(body) ==
    [returned |-> IF body.threw THEN JsNull ELSE body.value,
     raised |-> FALSE,
     store |-> body.store]

\* mutant: decryptFromSenderForMe without its try/catch
DecryptFromSenderForMeUncaught(ciphertextB64, store, storedIdentity, freshSeed, storageWorks) ==
    Uncaught(DecryptBody(ciphertextB64, store, storedIdentity, freshSeed, storageWorks))

\* decryptFromSenderForMe: whatever the body throws is caught and becomes null
DecryptFromSenderForMe(ciphertextB64, store, storedIdentity, freshSeed, storageWorks) ==
    CaughtAsNull(DecryptBody(ciphertextB64, store, storedIdentity, freshSeed, storageWorks))

\* the fields of a note payload as they travel in JSON
Hex0x(digits) == [kind |-> "hex0x", digits |-> digits]
HexBare(digits) == [kind |-> "hex", digits |-> digits]
JunkString == [kind |-> "junk"]
Randomness(r, s) == [kind |-> "randomness", r |-> r, s |-> s]
NoteJson(a, tokenId, owner, randomness, memo) ==
    [kind |-> "note", amount |-> a, tokenId |-> tokenId, ownerCipherPayPubKey |-> owner,
     randomness |-> randomness, memo |-> memo]
Payload(note) == [kind |-> "payload", note |-> note]

\* the keys, identities and strings the environment can hold
StoredSeed == Seed("stored", 1)
PeerSeed == Seed("peer", 1)
EphemeralSeed == Seed("ephemeral", 1)
IdentityPrivKey == 5
IdentitySeed == Seed("identity", IdentityPrivKey)

KeyStores ==
    {StoreAbsent,
     NonJsonText,
     JsonText(JsNull),
     JsonText(KeypairB64(U8ToB64(PublicKey(StoredSeed)), JsUndefined)),
     JsonText(KeypairB64(NotBase64, U8ToB64(SecretKey(StoredSeed)))),
     JsonText(KeypairB64(U8ToB64(JunkBytes(16)), U8ToB64(JunkBytes(16)))),
     JsonText(EncodedKeyPair(StoredSeed)),
     JsonText(KeypairB64(U8ToB64(PublicKey(PeerSeed)), U8ToB64(SecretKey(StoredSeed))))}

IdentityStores ==
    {StoreAbsent,
     NonJsonText,
     StoredIdentity(JsUndefined),
     StoredIdentity(PrivKeyHex(IdentityPrivKey)),
     StoredIdentity(PrivKeyOther)}

SamplePayload ==
    Payload(NoteJson(Hex0x(<<1, 9>>), Hex0x(<<1>>), Hex0x(<<7>>),
                     Randomness(Hex0x(<<3>>), JsUndefined), JsUndefined))

PlainObjects == {JsNull, JsNumber(7), SamplePayload, JsUndefined, JsNaN, JsBigInt}

\* a box some sender made for the holder of a seed, sealing a text
BoxFor(seed, text) ==
    NaclBox(Utf8(text), Nonce(1), PublicKey(seed), SecretKey(EphemeralSeed)).ct

CiphertextFields ==
    {U8ToB64(BoxFor(StoredSeed, JsonText(SamplePayload))),
     U8ToB64(BoxFor(IdentitySeed, JsonText(SamplePayload))),
     U8ToB64(BoxFor(PeerSeed, JsonText(SamplePayload))),
     U8ToB64(BoxFor(StoredSeed, NonJsonText)),
     U8ToB64([BoxFor(StoredSeed, JsonText(SamplePayload)) EXCEPT !.flipped = 1]),
     U8ToB64(JunkBytes(8)),
     NotBase64,
     JsUndefined}

EpkFields ==
    {U8ToB64(PublicKey(EphemeralSeed)), U8ToB64(PublicKey(PeerSeed)),
     U8ToB64(JunkBytes(16)), NotBase64, JsUndefined}

NonceFields ==
    {U8ToB64(Nonce(1)), U8ToB64(Nonce(2)), U8ToB64(JunkBytes(16)), JsUndefined}

Versions == {1, 2}

InputStrings ==
    {JsUndefined, NotBase64, Btoa(NonJsonText), Btoa(JsonText(JsNull)),
     Btoa(JsonText(JsNumber(7)))}
    \cup {Btoa(JsonText(Envelope(v, epk, n, ct))) :
            v \in Versions, epk \in EpkFields, n \in NonceFields, ct \in CiphertextFields}

RecipientKeys ==
    {U8ToB64(PublicKey(StoredSeed)), U8ToB64(PublicKey(IdentitySeed)),
     U8ToB64(PublicKey(PeerSeed)), U8ToB64(JunkBytes(16)), NotBase64}

InitE2EE ==
    /\ Init /\ ReconcileIdle /\ ConcurrentIdle /\ RestIdle
    /\ keyStore \in KeyStores
    /\ identityStore \in IdentityStores
    /\ envelope \in InputStrings \cup {NoEnvelope}
    /\ sealed = NotCalled
    /\ tampered = FALSE
    /\ decrypted = NotCalled

\* encryptForRecipient is called, with a given key or with the one
\* getLocalEncPublicKeyB64 returns
Encrypt ==
    /\ envelope = NoEnvelope /\ sealed = NotCalled
    /\ \E obj \in PlainObjects, nonceId \in 1..MaxRandom, toLocal \in BOOLEAN,
          given \in RecipientKeys, freshSeed \in 1..MaxFreshSeed :
        LET local == EnsureValidKeypair(keyStore, identityStore, freshSeed, TRUE)
            recipientPubB64 == IF toLocal THEN local.keypair.publicKeyB64 ELSE given
            out == EncryptForRecipient(recipientPubB64, obj, 1, nonceId)
        IN /\ keyStore' = IF toLocal THEN local.store ELSE keyStore
           /\ sealed' = [kind |-> "sealed", recipientPubB64 |-> recipientPubB64,
                         obj |-> obj, threw |-> out.threw]
           /\ envelope' = IF out.threw THEN NoEnvelope ELSE out.value
    /\ UNCHANGED <<identityStore, tampered, decrypted>>
    /\ UNCHANGED <<vars, reconcileVars, concurrentVars>>
    /\ UNCHANGED restVars

\* the envelope with one bit of its ciphertext changed
FlipBit(string, bit) ==
    LET env == string.u8.text.value
    IN Btoa(JsonText([env EXCEPT !.ct = U8ToB64([env.ct.u8 EXCEPT !.flipped = bit])]))

\* someone between sender and receiver changes one bit of the ciphertext
FlipCiphertextBit ==
    /\ sealed # NotCalled /\ envelope # NoEnvelope
    /\ ~tampered /\ decrypted = NotCalled
    /\ \E bit \in 1..MaxCtBit : envelope' = FlipBit(envelope, bit)
    /\ tampered' = TRUE
    /\ UNCHANGED <<keyStore, identityStore, sealed, decrypted>>
    /\ UNCHANGED <<vars, reconcileVars, concurrentVars>>
    /\ UNCHANGED restVars

\* decryptFromSenderForMe is called with the envelope
Decrypt ==
    /\ envelope # NoEnvelope /\ decrypted = NotCalled
    /\ \E freshSeed \in 1..MaxFreshSeed, storageWorks \in BOOLEAN :
        \E out \in {DecryptFromSenderForMe(envelope, keyStore, identityStore, freshSeed,
                                           storageWorks)} :
           /\ decrypted' = [kind |-> "result", returned |-> out.returned,
                            raised |-> out.raised, storageWorks |-> storageWorks]
           /\ keyStore' = out.store
    /\ UNCHANGED <<identityStore, envelope, sealed, tampered>>
    /\ UNCHANGED <<vars, reconcileVars, concurrentVars>>
    /\ UNCHANGED restVars

NextE2EE == Encrypt \/ FlipCiphertextBit \/ Decrypt

SpecE2EE == InitE2EE /\ [][NextE2EE]_allVars

\* ---- what the envelope is, read off the string itself

IsBase64 == envelope.kind = "b64"
IsJson == IsBase64 /\ envelope.u8.kind = "utf8" /\ envelope.u8.text.kind = "json"
IsEnvelope == IsJson /\ envelope.u8.text.value.kind = "envelope"
EnvelopeVersion == envelope.u8.text.value.v
EnvelopeEpk == envelope.u8.text.value.epk
EnvelopeNonce == envelope.u8.text.value.n
EnvelopeCt == envelope.u8.text.value.ct
FieldsDecode ==
    IsEnvelope /\ EnvelopeEpk.kind = "b64" /\ EnvelopeNonce.kind = "b64"
    /\ EnvelopeCt.kind = "b64"

\* the local keypair, when the key store holds two decodable keys of 32 bytes
LocalKeypairHeld ==
    /\ keyStore.kind = "json" /\ keyStore.value.kind = "keypair"
    /\ keyStore.value.publicKeyB64.kind = "b64" /\ keyStore.value.secretKeyB64.kind = "b64"
    /\ keyStore.value.publicKeyB64.u8.len = KeyLength
    /\ keyStore.value.secretKeyB64.u8.len = KeyLength
LocalSecretKey == keyStore.value.secretKeyB64.u8
LocalPublicKey == keyStore.value.publicKeyB64.u8
LocalKeypairValid ==
    /\ LocalKeypairHeld
    /\ LocalSecretKey.kind = "key" /\ LocalSecretKey.part = "sk"
    /\ LocalPublicKey = PublicKey(LocalSecretKey.seed)

\* the ciphertext is an intact box from the holder of epk to the local secret key
OpensUnderLocalKey ==
    /\ FieldsDecode /\ LocalKeypairHeld
    /\ EnvelopeCt.u8.kind = "box"
    /\ EnvelopeCt.u8.flipped = 0
    /\ EnvelopeCt.u8.nonce = EnvelopeNonce.u8
    /\ LocalSecretKey.kind = "key"
    /\ EnvelopeCt.u8.to = PublicKey(LocalSecretKey.seed)
    /\ EnvelopeEpk.u8 = PublicKey(EnvelopeCt.u8.from.seed)

PlaintextIsJson == EnvelopeCt.u8.pt.kind = "utf8" /\ EnvelopeCt.u8.pt.text.kind = "json"

Malformed ==
    \/ ~IsBase64
    \/ ~IsJson
    \/ ~IsEnvelope
    \/ EnvelopeVersion # 1
    \/ ~FieldsDecode
    \/ ~OpensUnderLocalKey
    \/ ~PlaintextIsJson

\* C15: decryptFromSenderForMe never raises; on every malformed input (not
\* base64, not JSON, no envelope, version other than 1, fields missing or
\* undecodable, a box that does not open under the local key, plaintext that is
\* not JSON) it returns null; what it returns is non-null only when the version
\* is 1 and the ciphertext opens under the local secret key.
C15_DecryptNeverRaises ==
    decrypted # NotCalled =>
        /\ ~decrypted.raised
        /\ Malformed => decrypted.returned = JsNull
        /\ decrypted.returned # JsNull =>
                IsEnvelope /\ EnvelopeVersion = 1 /\ OpensUnderLocalKey

\* a call that threw inside (an envelope field that is not base64) and returned null
C15_Witness ==
    /\ decrypted # NotCalled
    /\ IsEnvelope /\ EnvelopeVersion = 1 /\ EnvelopeCt = NotBase64
    /\ decrypted.returned = JsNull /\ ~decrypted.raised

JsonSerializable(obj) == obj.kind \in {"null", "number", "payload"}

\* C16: an envelope made by encryptForRecipient for the public key of the valid
\* local keypair, from a JSON-serializable value, decrypts to that value.
C16_RoundTrip ==
    (/\ decrypted # NotCalled /\ decrypted.storageWorks
     /\ sealed # NotCalled /\ ~tampered
     /\ JsonSerializable(sealed.obj)
     /\ LocalKeypairValid
     /\ sealed.recipientPubB64 = U8ToB64(LocalPublicKey))
    => decrypted.returned = sealed.obj /\ ~decrypted.raised

\* a note payload made the round trip under the stored keypair
C16_Witness ==
    /\ decrypted # NotCalled /\ sealed # NotCalled /\ ~tampered
    /\ LocalKeypairValid
    /\ sealed.recipientPubB64 = U8ToB64(LocalPublicKey)
    /\ sealed.obj = SamplePayload
    /\ decrypted.returned = SamplePayload

\* C17: after one bit of the ciphertext of a produced envelope was changed,
\* decryptFromSenderForMe returns null and does not raise.
C17_TamperRejected ==
    (decrypted # NotCalled /\ tampered) =>
        decrypted.returned = JsNull /\ ~decrypted.raised

\* the tampered envelope was addressed to the valid local keypair and would
\* have opened without the change
C17_Witness ==
    /\ decrypted # NotCalled /\ tampered /\ decrypted.storageWorks
    /\ LocalKeypairValid
    /\ sealed.recipientPubB64 = U8ToB64(LocalPublicKey)
    /\ sealed.obj = SamplePayload
    /\ decrypted.returned = JsNull

\* ---------------------------------------------------------------------------
\* Reconciliation of the relay's messages (src/services/accountOverviewService.js)
\* ---------------------------------------------------------------------------

MaxMessages == 3
MaxRuns == 2

\* BigInt('0x...'): the value of a string of hex digits
RECURSIVE HexValue(_)
HexValue(digits) ==
    IF digits = <<>> THEN 0
    ELSE 16 * HexValue(SubSeq(digits, 1, Len(digits) - 1)) + digits[Len(digits)]

\* value.toString(16): the hex digits of a non-negative integer
RECURSIVE ToHexDigits(_)
ToHexDigits(k) ==
    IF k < 16 THEN <<k>> ELSE Append(ToHexDigits(k \div 16), k % 16)

IsString(field) == field.kind \in {"hex0x", "hex", "junk"}

\* typeof x === 'string' ? BigInt(x.startsWith('0x') ? x : `0x${x}`) : BigInt(x)
FieldToBigInt(field) ==
    IF field.kind \in {"hex0x", "hex"} THEN [threw |-> FALSE, n |-> HexValue(field.digits)]
    ELSE IF field.kind = "number" THEN [threw |-> FALSE, n |-> field.n]
    ELSE [threw |-> TRUE, n |-> 0]

\* randomness.r: a string is parsed, anything else goes through BigInt(r || 0)
RandomnessRToBigInt(randomness) ==
    LET r == IF randomness.kind = "randomness" THEN randomness.r ELSE JsUndefined
    IN IF IsString(r) THEN FieldToBigInt(r)
       ELSE IF r.kind = "number" THEN [threw |-> FALSE, n |-> r.n]
       ELSE [threw |-> FALSE, n |-> 0]

\* randomness.s: converted when truthy, undefined otherwise
RandomnessSToBigInt(randomness) ==
    LET s == IF randomness.kind = "randomness" THEN randomness.s ELSE JsUndefined
        truthy == IsString(s) \/ (s.kind = "number" /\ s.n # 0)
        converted == FieldToBigInt(s)
    IN IF ~truthy THEN [threw |-> FALSE, value |-> JsUndefined]
       ELSE IF converted.threw THEN [threw |-> TRUE, value |-> JsUndefined]
       ELSE [threw |-> FALSE, value |-> BigIntValue(converted.n)]

NoNoteValue == [kind |-> "none"]

\* the note object built from decrypted.note; any conversion that throws
\* leaves no note
NoteFromJson(json) ==
    LET a == FieldToBigInt(json.amount)
        tokenId == FieldToBigInt(json.tokenId)
        owner == FieldToBigInt(json.ownerCipherPayPubKey)
        r == RandomnessRToBigInt(json.randomness)
        s == RandomnessSToBigInt(json.randomness)
    IN IF a.threw \/ tokenId.threw \/ owner.threw \/ r.threw \/ s.threw
       THEN [threw |-> TRUE, note |-> NoNoteValue]
       ELSE [threw |-> FALSE,
             note |-> [amount |-> a.n, tokenId |-> tokenId.n,
                       ownerCipherPayPubKey |-> owner.n,
                       randomness |-> [r |-> r.n, s |-> s.value],
                       memo |-> json.memo]]

\* the rest of the try block once decryptFromSenderForMe has returned (or thrown)
NoteOfDecrypted(out) ==
    IF out.raised
    THEN [threw |-> TRUE, pushed |-> FALSE, note |-> NoNoteValue, store |-> out.store]
    ELSE IF out.returned.kind # "payload" \/ out.returned.note.kind # "note"
    THEN [threw |-> FALSE, pushed |-> FALSE, note |-> NoNoteValue, store |-> out.store]
    ELSE [threw |-> NoteFromJson(out.returned.note).threw,
          pushed |-> ~NoteFromJson(out.returned.note).threw,
          note |-> NoteFromJson(out.returned.note).note,
          store |-> out.store]

\* one iteration of the loop of decryptMessages: what the try block does
ProcessMessage(msg, store, storedIdentity, freshSeed) ==
    NoteOfDecrypted(
        DecryptFromSenderForMe(msg.ciphertext, store, storedIdentity, freshSeed, TRUE))

RECURSIVE DecryptLoopAborting(_, _, _, _, _)
\* mutant loop: the try/catch is around the loop, not inside it
AfterMessageAborting(rest, notes, step, storedIdentity, freshSeed) ==
    IF step.threw THEN [raised |-> FALSE, notes |-> notes, store |-> step.store]
    ELSE DecryptLoopAborting(rest,
            IF step.pushed THEN Append(notes, step.note) ELSE notes,
            step.store, storedIdentity, freshSeed)

DecryptLoopAborting(msgs, notes, store, storedIdentity, freshSeed) ==
    IF msgs = <<>> THEN [raised |-> FALSE, notes |-> notes, store |-> store]
    ELSE AfterMessageAborting(Tail(msgs), notes,
            ProcessMessage(msgs[1], store, storedIdentity, freshSeed),
            storedIdentity, freshSeed)

RECURSIVE DecryptLoop(_, _, _, _, _)
\* the end of one iteration: the note, if one was built, is pushed; a message
\* that threw is logged and skipped
AfterMessage(rest, notes, step, storedIdentity, freshSeed) ==
    DecryptLoop(rest,
        IF step.pushed THEN Append(notes, step.note) ELSE notes,
        step.store, storedIdentity, freshSeed)

\* the loop of decryptMessages
DecryptLoop(msgs, notes, store, storedIdentity, freshSeed) ==
    IF msgs = <<>> THEN [raised |-> FALSE, notes |-> notes, store |-> store]
    ELSE AfterMessage(Tail(msgs), notes,
            ProcessMessage(msgs[1], store, storedIdentity, freshSeed),
            storedIdentity, freshSeed)

\* mutant: the first message that throws ends the batch
DecryptMessagesAborting(msgs, store, storedIdentity, freshSeed) ==
    DecryptLoopAborting(msgs, <<>>, store, storedIdentity, freshSeed)

\* decryptMessages
DecryptMessages(msgs, store, storedIdentity, freshSeed) ==
    DecryptLoop(msgs, <<>>, store, storedIdentity, freshSeed)

\* the note as computeAccountOverview sends it: BigInts as 0x hex strings
NoteForApi(note) ==
    [amount |-> Hex0x(ToHexDigits(note.amount)),
     tokenId |-> Hex0x(ToHexDigits(note.tokenId)),
     ownerCipherPayPubKey |-> Hex0x(ToHexDigits(note.ownerCipherPayPubKey)),
     randomness |->
        [r |-> Hex0x(ToHexDigits(note.randomness.r)),
         s |-> IF note.randomness.s.kind = "bigint" /\ note.randomness.s.n # 0
               THEN Hex0x(ToHexDigits(note.randomness.s.n)) ELSE JsUndefined],
     memo |-> note.memo]

\* the note as computeAccountOverview reads it back from the response
NoteFromApi(json) ==
    [amount |-> HexValue(json.amount.digits),
     tokenId |-> HexValue(json.tokenId.digits),
     ownerCipherPayPubKey |-> HexValue(json.ownerCipherPayPubKey.digits),
     randomness |->
        [r |-> HexValue(json.randomness.r.digits),
         s |-> IF json.randomness.s.kind = "hex0x"
               THEN BigIntValue(HexValue(json.randomness.s.digits)) ELSE JsUndefined],
     memo |-> json.memo]

RECURSIVE UnspentAmount(_, _)
UnspentAmount(apiNotes, spent) ==
    IF apiNotes = <<>> THEN 0
    ELSE (IF apiNotes[1] \in spent THEN 0 ELSE HexValue(apiNotes[1].amount.digits))
         + UnspentAmount(Tail(apiNotes), spent)

\* the response of POST /api/v1/account/overview: a function of the notes sent
\* and of which of them the service holds to be spent
OverviewResponse(apiNotes, spent) ==
    [shieldedBalance |-> Hex0x(ToHexDigits(UnspentAmount(apiNotes, spent))),
     spendableNotes |-> Cardinality({k \in 1..Len(apiNotes) : apiNotes[k] \notin spent}),
     totalNotes |-> Len(apiNotes),
     notes |-> [k \in 1..Len(apiNotes) |->
                    [note |-> apiNotes[k], isSpent |-> apiNotes[k] \in spent,
                     amount |-> apiNotes[k].amount]]]

\* computeAccountOverview, given the answer of the service
ComputeAccountOverview(notes, answer) ==
    LET apiNotes == [k \in 1..Len(notes) |-> NoteForApi(notes[k])]
        result == OverviewResponse(apiNotes, answer.spent)
    IN IF ~answer.ok THEN [kind |-> "raised"]
       ELSE [kind |-> "overview",
             shieldedBalance |-> HexValue(result.shieldedBalance.digits),
             spendableNotes |-> result.spendableNotes,
             totalNotes |-> result.totalNotes,
             notes |-> [k \in 1..Len(result.notes) |->
                          [note |-> NoteFromApi(result.notes[k].note),
                           isSpent |-> result.notes[k].isSpent,
                           amount |-> HexValue(result.notes[k].amount.digits)]]]

EmptyOverview ==
    [kind |-> "overview", shieldedBalance |-> 0, spendableNotes |-> 0, totalNotes |-> 0,
     notes |-> <<>>]

\* fetchAccountOverview after decryptMessages: no notes, no call of the service
OverviewOfNotes(out, answer) ==
    IF Len(out.notes) = 0 THEN [overview |-> EmptyOverview, store |-> out.store]
    ELSE [overview |-> ComputeAccountOverview(out.notes, answer), store |-> out.store]

\* fetchAccountOverview, given the answers of relay and service
FetchAccountOverview(relay, answer, store, storedIdentity, freshSeed) ==
    IF ~relay.ok THEN [overview |-> [kind |-> "raised"], store |-> store]
    ELSE OverviewOfNotes(DecryptMessages(relay.messages, store, storedIdentity, freshSeed),
                         answer)

\* payloads a sender can seal
SecondPayload ==
    Payload(NoteJson(JsNumber(10), HexBare(<<1>>), Hex0x(<<7>>),
                     Randomness(Hex0x(<<4>>), Hex0x(<<2>>)), JsUndefined))
PayloadWithoutNote == Payload(JsUndefined)
PayloadWithoutAmount ==
    Payload(NoteJson(JsUndefined, Hex0x(<<1>>), Hex0x(<<7>>),
                     Randomness(Hex0x(<<3>>), JsUndefined), JsUndefined))
PayloadWithoutTokenId ==
    Payload(NoteJson(Hex0x(<<1, 9>>), JsUndefined, Hex0x(<<7>>),
                     Randomness(Hex0x(<<3>>), JsUndefined), JsUndefined))
PayloadWithoutOwner ==
    Payload(NoteJson(Hex0x(<<1, 9>>), Hex0x(<<1>>), JsUndefined,
                     Randomness(Hex0x(<<3>>), JsUndefined), JsUndefined))
PayloadWithoutRandomness ==
    Payload(NoteJson(Hex0x(<<1, 9>>), Hex0x(<<1>>), Hex0x(<<7>>), JsUndefined, JsUndefined))
PayloadWithoutR ==
    Payload(NoteJson(Hex0x(<<1, 9>>), Hex0x(<<1>>), Hex0x(<<7>>),
                     Randomness(JsUndefined, JsUndefined), JsUndefined))

\* the envelope a sender makes of a payload for the holder of a seed
SealedFor(seed, payload) ==
    EncryptForRecipient(U8ToB64(PublicKey(seed)), payload, 1, 1).value

CorruptedCiphertext == FlipBit(SealedFor(StoredSeed, SamplePayload), 1)

ValidCiphertexts ==
    {SealedFor(StoredSeed, SamplePayload), SealedFor(StoredSeed, SecondPayload)}

MalformedCiphertexts ==
    {SealedFor(StoredSeed, p) :
        p \in {PayloadWithoutNote, PayloadWithoutAmount, PayloadWithoutTokenId,
               PayloadWithoutOwner, PayloadWithoutRandomness, PayloadWithoutR}}

MessagePool ==
    ValidCiphertexts \cup MalformedCiphertexts
    \cup {CorruptedCiphertext, SealedFor(PeerSeed, SamplePayload),
          SealedFor(IdentitySeed, SamplePayload)}

ReconcilePool ==
    ValidCiphertexts
    \cup {CorruptedCiphertext, SealedFor(IdentitySeed, SamplePayload),
          SealedFor(StoredSeed, PayloadWithoutRandomness)}

Message(k, ciphertext) == [id |-> k, ciphertext |-> ciphertext]

Batches(pool) ==
    {[k \in 1..Len(cts) |-> Message(k, cts[k])] :
        cts \in UNION {[1..len -> pool] : len \in 0..MaxMessages}}

ReconcileKeyStores == {StoreAbsent, JsonText(EncodedKeyPair(StoredSeed))}
ReconcileIdentityStores == {StoreAbsent, StoredIdentity(PrivKeyHex(IdentityPrivKey))}

RelayUp(msgs) == [ok |-> TRUE, messages |-> msgs]
RelayDown == [ok |-> FALSE, messages |-> <<>>]
ServiceUp(spent) == [ok |-> TRUE, spent |-> spent]
ServiceDown == [ok |-> FALSE, spent |-> {}]

\* the notes the two valid payloads stand for
FirstNote ==
    [amount |-> 25, tokenId |-> 1, ownerCipherPayPubKey |-> 7,
     randomness |-> [r |-> 3, s |-> JsUndefined], memo |-> JsUndefined]
SecondNote ==
    [amount |-> 10, tokenId |-> 1, ownerCipherPayPubKey |-> 7,
     randomness |-> [r |-> 4, s |-> BigIntValue(2)], memo |-> JsUndefined]

InitDecryptBatch ==
    /\ Init /\ E2eeIdle /\ ConcurrentIdle /\ RestIdle
    /\ keyStore \in ReconcileKeyStores
    /\ identityStore \in ReconcileIdentityStores
    /\ relayAnswer \in {RelayUp(b) : b \in Batches(MessagePool)}
    /\ serviceAnswer = ServiceUp({})
    /\ decryptedNotes = NotCalled
    /\ overviews = <<>>

InitReconcile ==
    /\ Init /\ E2eeIdle /\ ConcurrentIdle /\ RestIdle
    /\ keyStore \in ReconcileKeyStores
    /\ identityStore \in ReconcileIdentityStores
    /\ relayAnswer \in {RelayUp(b) : b \in Batches(ReconcilePool)} \cup {RelayDown}
    /\ serviceAnswer \in {ServiceDown, ServiceUp({}), ServiceUp({NoteForApi(FirstNote)})}
    /\ decryptedNotes = NotCalled
    /\ overviews = <<>>

\* decryptMessages is called with the relay's messages
DecryptMessagesCall ==
    /\ decryptedNotes = NotCalled /\ relayAnswer.ok
    /\ \E freshSeed \in 1..MaxFreshSeed :
        \E out \in {DecryptMessages(relayAnswer.messages, keyStore, identityStore,
                                    freshSeed)} :
           /\ decryptedNotes' = [kind |-> "returned", notes |-> out.notes,
                                 raised |-> out.raised]
           /\ keyStore' = out.store
    /\ UNCHANGED <<identityStore, relayAnswer, serviceAnswer, overviews>>
    /\ UNCHANGED <<vars, e2eeVars, concurrentVars>>
    /\ UNCHANGED restVars

\* the notes of the overview returned last
PreviousNotes ==
    IF overviews = <<>> \/ overviews[Len(overviews)].kind # "overview" THEN <<>>
    ELSE [k \in 1..Len(overviews[Len(overviews)].notes) |->
            overviews[Len(overviews)].notes[k].note]

\* mutant: the notes array lives on between runs and is never cleared
FetchAccountOverviewRunAccumulating ==
    /\ Len(overviews) < MaxRuns
    /\ \E freshSeed \in 1..MaxFreshSeed :
        \E out \in {IF ~relayAnswer.ok
                    THEN [overview |-> [kind |-> "raised"], store |-> keyStore]
                    ELSE OverviewOfNotes(
                            DecryptLoop(relayAnswer.messages, PreviousNotes, keyStore,
                                        identityStore, freshSeed),
                            serviceAnswer)} :
           /\ overviews' = Append(overviews, out.overview)
           /\ keyStore' = out.store
    /\ UNCHANGED <<identityStore, relayAnswer, serviceAnswer, decryptedNotes>>
    /\ UNCHANGED <<vars, e2eeVars, concurrentVars>>
    /\ UNCHANGED restVars

\* one run of fetchAccountOverview against the same relay and service answers
FetchAccountOverviewRun ==
    /\ Len(overviews) < MaxRuns
    /\ \E freshSeed \in 1..MaxFreshSeed :
        \E out \in {FetchAccountOverview(relayAnswer, serviceAnswer, keyStore,
                                         identityStore, freshSeed)} :
           /\ overviews' = Append(overviews, out.overview)
           /\ keyStore' = out.store
    /\ UNCHANGED <<identityStore, relayAnswer, serviceAnswer, decryptedNotes>>
    /\ UNCHANGED <<vars, e2eeVars, concurrentVars>>
    /\ UNCHANGED restVars

NextDecryptBatch == DecryptMessagesCall

SpecDecryptBatch == InitDecryptBatch /\ [][NextDecryptBatch]_allVars

NextReconcile == FetchAccountOverviewRun \/ DecryptMessagesCall

SpecReconcile == InitReconcile /\ [][NextReconcile]_allVars

\* ---- the batch and its result

BatchMessages == relayAnswer.messages

\* what a message yields when it is the only one of its batch
NotesOfOne(msg) ==
    LET one == ProcessMessage(msg, keyStore, identityStore, 1)
    IN IF one.pushed THEN <<one.note>> ELSE <<>>

RECURSIVE NotesInOrder(_)
NotesInOrder(msgs) ==
    IF msgs = <<>> THEN <<>> ELSE NotesOfOne(msgs[1]) \o NotesInOrder(Tail(msgs))

StoredKeyIsLocal == keyStore = JsonText(EncodedKeyPair(StoredSeed))

\* the note a valid ciphertext of the pool carries
NoteOf(ciphertext) ==
    IF ciphertext = SealedFor(StoredSeed, SamplePayload) THEN FirstNote ELSE SecondNote

RECURSIVE ValidNotesOf(_)
ValidNotesOf(msgs) ==
    IF msgs = <<>> THEN <<>>
    ELSE (IF msgs[1].ciphertext \in ValidCiphertexts
          THEN <<NoteOf(msgs[1].ciphertext)>> ELSE <<>>)
         \o ValidNotesOf(Tail(msgs))

ValidAndCorruptedOnly ==
    \A k \in 1..Len(BatchMessages) :
        BatchMessages[k].ciphertext \in ValidCiphertexts \cup {CorruptedCiphertext}

\* C18: decryptMessages returns normally for every batch; its result is, in
\* message order, the notes of the messages that yield a note on their own;
\* a batch of valid and corrupted messages gives exactly the valid ones' notes.
C18_BatchNeverAborts ==
    decryptedNotes # NotCalled =>
        /\ ~decryptedNotes.raised
        /\ decryptedNotes.notes = NotesInOrder(BatchMessages)
        /\ (StoredKeyIsLocal /\ ValidAndCorruptedOnly)
                => decryptedNotes.notes = ValidNotesOf(BatchMessages)

\* two valid messages around a corrupted one gave the two notes, in order
C18_Witness ==
    /\ decryptedNotes # NotCalled
    /\ Len(BatchMessages) = 3
    /\ BatchMessages[1].ciphertext = SealedFor(StoredSeed, SecondPayload)
    /\ BatchMessages[2].ciphertext = CorruptedCiphertext
    /\ BatchMessages[3].ciphertext = SealedFor(StoredSeed, SamplePayload)
    /\ decryptedNotes.notes = <<SecondNote, FirstNote>>

\* C19: a message whose payload lacks the note, its amount, tokenId, owner key
\* or randomness r contributes no note: the result has no more notes than the
\* batch has messages with a complete payload.
C19_MalformedContributesNoNote ==
    decryptedNotes # NotCalled =>
        Len(decryptedNotes.notes) <=
            Cardinality({k \in 1..Len(BatchMessages) :
                            BatchMessages[k].ciphertext \notin MalformedCiphertexts})

\* C20: every run of fetchAccountOverview on the same relay and service answers
\* returns what the first run returned.
C20_ReconcileIdempotent ==
    \A j \in 1..Len(overviews) : overviews[j] = overviews[1]

\* two runs returned the same overview of two notes the service holds to be
\* spent, and the first run wrote the key store
C20_Witness ==
    /\ Len(overviews) = 2
    /\ overviews[2].kind = "overview"
    /\ overviews[2].totalNotes = 2
    /\ overviews[2].spendableNotes = 0
    /\ overviews[2].notes[1].isSpent
    /\ overviews[2].notes[1].note = FirstNote
    /\ identityStore # StoreAbsent
    /\ keyStore = JsonText(DeriveKeypairFromIdentity(IdentityPrivKey))

\* ------------------------------------------------- decryption and the key store

\* C21: decryptFromSenderForMe leaves the stored keypair as it found it,
\* whatever the key store holds and whatever the envelope is.
C21_DecryptLeavesKeyStore == [][Decrypt => keyStore' = keyStore]_allVars

\* ------------------------------------------------------- fetching messages
\* src/services/accountOverviewService.js, fetchMessages

MaxFetchCalls == 3

ErrNotAuthenticated == "Not authenticated"
ErrFailedToFetchMessages == "Failed to fetch messages"
ErrHttpStatus == "HTTP 500"
ErrTimedOut == "Request timed out after 30 seconds"
ErrRelayMessage == "relay: internal error"
ErrNetwork == "TypeError: Failed to fetch"
ErrBodySyntax == "SyntaxError: Unexpected token"
ErrFetchThrew == "ReferenceError: fetch is not defined"

\* the options fetchMessages is called with (limit and offset at their defaults)
FetchOptions ==
    {[recipientKey |-> "", unreadOnly |-> FALSE],
     [recipientKey |-> SenderKey, unreadOnly |-> TRUE]}

\* the URL built from the options: a falsy recipientKey or unreadOnly adds no
\* parameter
Url(options) ==
    [recipientKey |-> options.recipientKey,
     unreadOnly |-> IF options.unreadOnly THEN "true" ELSE "",
     limit |-> "100", offset |-> "0"]

\* how a promise stands
Pending == [kind |-> "pending"]
Fulfilled(value) == [kind |-> "fulfilled", value |-> value]
Rejected(message) == [kind |-> "rejected", message |-> message]

\* the bodies the relay may send with its response
OkBodies == {[json |-> TRUE, message |-> ""], [json |-> FALSE, message |-> ""]}
ErrorBodies ==
    {[json |-> TRUE, message |-> ErrRelayMessage], [json |-> TRUE, message |-> ""],
     [json |-> FALSE, message |-> ""]}

\* inFlightRequests.has(url) and inFlightRequests.get(url)
InFlightHas(url) == \E e \in inFlightRequests : e.url = url
InFlightGet(url) == (CHOOSE e \in inFlightRequests : e.url = url).promise

\* localStorage['cipherpay_token'] at the time of a call: absent, or the bearer
\* token of one of two sessions
NoToken == ""
Tokens == {"tokenA", "tokenB"}

\* the call throws before it builds the URL: no token in localStorage
FetchMessagesUnauthenticated(options) ==
    /\ fetchCalls' = Append(fetchCalls, [url |-> Url(options), token |-> NoToken,
                                         promise |-> 0,
                                         outcome |-> Rejected(ErrNotAuthenticated)])
    /\ UNCHANGED <<inFlightRequests, requests>>

\* the call returns the promise found in the Map, settled or not
FetchMessagesReuse(options, token) ==
    /\ fetchCalls' = Append(fetchCalls, [url |-> Url(options), token |-> token,
                                         promise |-> InFlightGet(Url(options)),
                                         outcome |-> requests[InFlightGet(Url(options))].result])
    /\ UNCHANGED <<inFlightRequests, requests>>

\* the call arms the timer, issues fetch(url) with the token and stores the
\* promise in the Map. When fetch throws instead of returning a promise the
\* async function has run its catch and finally blocks (delete) before the
\* promise, already rejected, is stored.
FetchMessagesIssue(options, token, fetchThrows) ==
    /\ requests' = Append(requests,
         IF fetchThrows
         THEN [url |-> Url(options), token |-> token, state |-> "settled", ok |-> FALSE,
               endedBy |-> "fetchThrew", result |-> Rejected(ErrFetchThrew)]
         ELSE [url |-> Url(options), token |-> token, state |-> "pending", ok |-> FALSE,
               endedBy |-> "nothing", result |-> Pending])
    /\ inFlightRequests' =
         {e \in inFlightRequests : e.url # Url(options)}
            \cup {[url |-> Url(options), promise |-> Len(requests) + 1]}
    /\ fetchCalls' = Append(fetchCalls, [url |-> Url(options), token |-> token,
                                         promise |-> Len(requests) + 1,
                                         outcome |-> IF fetchThrows
                                                     THEN Rejected(ErrFetchThrew)
                                                     ELSE Pending])

\* mutant: no look-up in the Map before the request is issued
FetchMessagesUndeduplicated ==
    /\ Len(fetchCalls) < MaxFetchCalls
    /\ \E options \in FetchOptions, token \in Tokens \cup {NoToken}, fetchThrows \in BOOLEAN :
         IF token = NoToken THEN FetchMessagesUnauthenticated(options)
         ELSE FetchMessagesIssue(options, token, fetchThrows)
    /\ UNCHANGED <<vars, storeVars, e2eeVars, reconcileVars, concurrentVars>>
    /\ UNCHANGED <<keypairVars, publishVars>>
    /\ UNCHANGED lateVars

\* fetchMessages(options), up to the return of its promise
FetchMessages ==
    /\ Len(fetchCalls) < MaxFetchCalls
    /\ \E options \in FetchOptions, token \in Tokens \cup {NoToken}, fetchThrows \in BOOLEAN :
         IF token = NoToken THEN FetchMessagesUnauthenticated(options)
         ELSE IF InFlightHas(Url(options)) THEN FetchMessagesReuse(options, token)
         ELSE FetchMessagesIssue(options, token, fetchThrows)
    /\ UNCHANGED <<vars, storeVars, e2eeVars, reconcileVars, concurrentVars>>
    /\ UNCHANGED <<keypairVars, publishVars>>
    /\ UNCHANGED lateVars

\* the request promise settles: the finally block deletes the URL from the Map
\* and every call that returned this promise ends with its outcome
Settle(r, endedBy, result) ==
    /\ requests' = [requests EXCEPT ![r].state = "settled", ![r].endedBy = endedBy,
                                    ![r].result = result]
    /\ inFlightRequests' = {e \in inFlightRequests : e.url # requests[r].url}
    /\ fetchCalls' = [c \in 1..Len(fetchCalls) |->
                        IF fetchCalls[c].promise = r
                        THEN [fetchCalls[c] EXCEPT !.outcome = result]
                        ELSE fetchCalls[c]]

\* await fetch(...) returns a response: the timer is cleared
ResponseArrives ==
    /\ \E r \in 1..Len(requests), ok \in BOOLEAN :
         /\ requests[r].state = "pending"
         /\ requests' = [requests EXCEPT ![r].state = "headers", ![r].ok = ok]
    /\ UNCHANGED <<inFlightRequests, fetchCalls>>
    /\ UNCHANGED <<vars, storeVars, e2eeVars, reconcileVars, concurrentVars>>
    /\ UNCHANGED <<keypairVars, publishVars>>
    /\ UNCHANGED lateVars

\* await response.json() ends, on the success path or on the !response.ok path
BodyArrives ==
    /\ \E r \in 1..Len(requests) :
         /\ requests[r].state = "headers"
         /\ IF requests[r].ok
            THEN \E body \in OkBodies :
                   Settle(r, "response",
                          IF body.json THEN Fulfilled("messages")
                          ELSE Rejected(ErrBodySyntax))
            ELSE \E body \in ErrorBodies :
                   Settle(r, "response",
                          Rejected(IF ~body.json THEN ErrFailedToFetchMessages
                                   ELSE IF body.message # "" THEN body.message
                                   ELSE ErrHttpStatus))
    /\ UNCHANGED <<vars, storeVars, e2eeVars, reconcileVars, concurrentVars>>
    /\ UNCHANGED <<keypairVars, publishVars>>
    /\ UNCHANGED lateVars

\* fetch rejects by itself: the error is rethrown as it is
NetworkError ==
    /\ \E r \in 1..Len(requests) :
         /\ requests[r].state = "pending"
         /\ Settle(r, "networkError", Rejected(ErrNetwork))
    /\ UNCHANGED <<vars, storeVars, e2eeVars, reconcileVars, concurrentVars>>
    /\ UNCHANGED <<keypairVars, publishVars>>
    /\ UNCHANGED lateVars

\* the 30 s timer fires before the response: controller.abort() makes fetch
\* reject with an AbortError, which the catch block replaces
Timeout ==
    /\ \E r \in 1..Len(requests) :
         /\ requests[r].state = "pending"
         /\ Settle(r, "abort", Rejected(ErrTimedOut))
    /\ UNCHANGED <<vars, storeVars, e2eeVars, reconcileVars, concurrentVars>>
    /\ UNCHANGED <<keypairVars, publishVars>>
    /\ UNCHANGED lateVars

InitFetch ==
    /\ Init /\ StoreIdle /\ E2eeIdle /\ ReconcileIdle /\ ConcurrentIdle
    /\ FetchIdle /\ KeypairIdle /\ PublishIdle /\ LateIdle

NextFetch == FetchMessages \/ ResponseArrives \/ BodyArrives \/ NetworkError \/ Timeout

SpecFetch == InitFetch /\ [][NextFetch]_allVars

\* the requests of a URL that have not settled
InFlight(url) ==
    {r \in 1..Len(requests) : requests[r].url = url /\ requests[r].state # "settled"}

\* the calls that wait for the outcome of their promise
Waiting == {c \in 1..Len(fetchCalls) : fetchCalls[c].outcome = Pending}

\* C22: at most one request per URL is in flight, and the calls that wait on a
\* URL all wait on that one request.
C22_OneRequestPerFilter ==
    /\ \A o \in FetchOptions : Cardinality(InFlight(Url(o))) <= 1
    /\ \A c \in Waiting : InFlight(fetchCalls[c].url) = {fetchCalls[c].promise}

\* three calls for one URL wait on a single request, the only one issued
C22_Witness ==
    /\ Len(requests) = 1
    /\ Cardinality(Waiting) = 3
    /\ \A c \in Waiting : fetchCalls[c].promise = 1 /\ fetchCalls[c].url = requests[1].url

\* C23: a request ends only with the relay's response or with the network's
\* error; fetchMessages never ends it by itself.
C23_NoAbortByTheCore ==
    \A r \in 1..Len(requests) :
        requests[r].state = "settled" => requests[r].endedBy \in {"response", "networkError"}

\* ------------------------------------------------- upstream errors in a transfer

\* C24: when loading the spendable notes failed upstream, createTransaction
\* does not end with the error of an empty note set.
C24_RelayFailureSurfaces == relayFailed => outcome # ErrNoSpendableNotes

\* ------------------------------------------------------- key derivation
\* src/lib/e2ee.ts, bigIntToBytes32 and deriveKeypairFromIdentity on scalars of
\* any size. A bigint is the sequence of its bytes, lowest first; the scalars
\* of this part have up to 33 bytes.

MaxDerivations == 2
MaxHighByte == 2

\* the byte of a bigint at a position (0 above its length)
ByteAt(value, idx) == IF idx <= Len(value) THEN value[idx] ELSE 0

\* bigIntToBytes32: 32 times the lowest byte, then a shift right by 8
BigIntToBytes32(value) == [idx \in 1..KeyLength |-> ByteAt(value, idx)]

\* the bytes of bytes + carry from a position on, followed by the carry out of
\* the last byte
RECURSIVE AddFrom(_, _, _)
AddFrom(bytes, carry, idx) ==
    IF idx > KeyLength THEN <<carry>>
    ELSE <<(bytes[idx] + carry) % 256>>
            \o AddFrom(bytes, (bytes[idx] + carry) \div 256, idx + 1)

\* the 32 low bytes of bytes + addend, and whether the sum reached 2^256
SumBytes32(out) == [bytes |-> SubSeq(out, 1, KeyLength), carry |-> out[KeyLength + 1]]
AddToBytes32(bytes, addend) == SumBytes32(AddFrom(bytes, addend, 1))

\* BigInt('0x' + 'ff'.repeat(32))
Max32Bytes == [idx \in 1..KeyLength |-> 255]

\* a sum below 2 * max32Bytes, reduced modulo max32Bytes
ReduceSum(sum) ==
    IF sum.carry > 0 THEN AddToBytes32(sum.bytes, 1).bytes
    ELSE IF sum.bytes = Max32Bytes THEN [idx \in 1..KeyLength |-> 0]
    ELSE sum.bytes

\* privKey % max32Bytes for 0 <= privKey < 2^264: with privKey = hi * 2^256 + lo
\* the remainder is that of lo + hi, which lies below 2 * max32Bytes
ModMax32Bytes(privKey) ==
    ReduceSum(AddToBytes32(BigIntToBytes32(privKey), ByteAt(privKey, KeyLength + 1)))

\* const seedBytes = bigIntToBytes32(privKey % max32Bytes)
SeedBytes(privKey) == BigIntToBytes32(ModMax32Bytes(privKey))

\* mutant: the keypair is drawn afresh at every call (nacl.box.keyPair())
DeriveKeypairFresh(privKey) ==
    EncodedKeyPair(Seed("identity", [idx \in 1..KeyLength |-> Len(derivations)]))

\* deriveKeypairFromIdentity on a scalar given by its bytes
DeriveKeypairFromScalar(privKey) == EncodedKeyPair(Seed("identity", SeedBytes(privKey)))

\* the scalars derived from: low parts around 0 and around 2^256 - 1, below and
\* above 2^256
LowParts ==
    {[idx \in 1..KeyLength |-> 0],
     [idx \in 1..KeyLength |-> IF idx = 1 THEN IdentityPrivKey ELSE 0],
     [idx \in 1..KeyLength |-> IF idx = 2 THEN 1 ELSE 0],
     [idx \in 1..KeyLength |-> IF idx = 1 THEN 254 ELSE 255],
     Max32Bytes}
Scalars ==
    LowParts \cup {Append(lo, hi) : lo \in LowParts, hi \in 1..MaxHighByte}

InitDerive ==
    /\ Init /\ E2eeIdle /\ ReconcileIdle /\ ConcurrentIdle /\ FetchIdle
    /\ keyStore \in {StoreAbsent, NonJsonText, JsonText(EncodedKeyPair(StoredSeed))}
    /\ identityStore = StoreAbsent
    /\ ensured = <<>>
    /\ derivations = <<>>
    /\ PublishIdle /\ LateIdle

\* deriveKeypairFromIdentity(privKey) is called
DeriveKeypair ==
    /\ Len(derivations) < MaxDerivations
    /\ \E privKey \in Scalars :
         derivations' = Append(derivations,
             [privKey |-> privKey, seedBytes |-> SeedBytes(privKey),
              keypair |-> DeriveKeypairFromScalar(privKey)])
    /\ UNCHANGED <<vars, storeVars, e2eeVars, reconcileVars, concurrentVars>>
    /\ UNCHANGED <<fetchVars, ensured, publishVars>>
    /\ UNCHANGED lateVars

NextDerive == DeriveKeypair

SpecDerive == InitDerive /\ [][NextDerive]_allVars

C26_SeedIsScalarMod2Pow256 ==
    \A a \in 1..Len(derivations) :
        derivations[a].seedBytes = BigIntToBytes32(derivations[a].privKey)

\* ------------------------------------------------------- the cached keypair
\* src/lib/e2ee.ts, ensureValidKeypair called repeatedly on one localStorage

MaxEnsureCalls == 2

InitKeypair ==
    /\ Init /\ E2eeIdle /\ ReconcileIdle /\ ConcurrentIdle /\ FetchIdle
    /\ keyStore \in KeyStores
    /\ identityStore \in IdentityStores
    /\ ensured = <<>>
    /\ derivations = <<>>
    /\ PublishIdle /\ LateIdle

\* ensureValidKeypair() is called
EnsureValidKeypairCall ==
    /\ Len(ensured) < MaxEnsureCalls
    /\ \E freshSeed \in 1..MaxFreshSeed, storageWorks \in BOOLEAN :
        \E out \in {EnsureValidKeypair(keyStore, identityStore, freshSeed, storageWorks)} :
           /\ ensured' = Append(ensured,
                [before |-> keyStore, identity |-> identityStore,
                 storageWorks |-> storageWorks,
                 threw |-> out.threw, returned |-> out.keypair, after |-> out.store])
           /\ keyStore' = out.store
    /\ UNCHANGED <<vars, identityStore, e2eeVars, reconcileVars, concurrentVars>>
    /\ UNCHANGED <<fetchVars, derivations, publishVars>>
    /\ UNCHANGED lateVars

\* AuthService.setIdentity(identity): the stored identity is replaced or removed
SetIdentity ==
    /\ Len(ensured) < MaxEnsureCalls
    /\ \E stored \in IdentityStores :
         stored # identityStore /\ identityStore' = stored
    /\ UNCHANGED <<vars, keyStore, e2eeVars, reconcileVars, concurrentVars>>
    /\ UNCHANGED <<fetchVars, keypairVars, publishVars>>
    /\ UNCHANGED lateVars

NextKeypair == EnsureValidKeypairCall \/ SetIdentity

SpecKeypair == InitKeypair /\ [][NextKeypair]_allVars

\* the entry is a keypair object whose two keys decode to 32 bytes
WellFormedEntry(store) ==
    /\ store.kind = "json"
    /\ store.value.kind = "keypair"
    /\ store.value.publicKeyB64.kind = "b64"
    /\ store.value.secretKeyB64.kind = "b64"
    /\ store.value.publicKeyB64.u8.len = KeyLength
    /\ store.value.secretKeyB64.u8.len = KeyLength

\* C27: over a readable store that holds a well-formed keypair the call returns
\* that keypair and leaves the store as it is; a call that changes the store
\* found no well-formed keypair in it.
C27_ValidKeypairKept ==
    \A a \in 1..Len(ensured) :
        /\ (WellFormedEntry(ensured[a].before) /\ ensured[a].storageWorks) =>
              /\ ~ensured[a].threw
              /\ ensured[a].returned = ensured[a].before.value
              /\ ensured[a].after = ensured[a].before
        /\ ensured[a].after # ensured[a].before => ~WellFormedEntry(ensured[a].before)

\* the first call found no keypair and stored the derived one, the second call
\* returned the stored one and wrote nothing
C27_Witness ==
    /\ Len(ensured) = 2
    /\ ensured[1].before = StoreAbsent
    /\ ensured[1].after = JsonText(DeriveKeypairFromIdentity(IdentityPrivKey))
    /\ ensured[2].storageWorks
    /\ ensured[2].before = ensured[1].after
    /\ ensured[2].after = ensured[2].before
    /\ ensured[2].returned = DeriveKeypairFromIdentity(IdentityPrivKey)

\* the call found neither a well-formed keypair nor an identity scalar and
\* returned a keypair all the same
FellBack(a) ==
    /\ ensured[a].storageWorks /\ ~ensured[a].threw
    /\ ~WellFormedEntry(ensured[a].before)
    /\ GetCipherPayIdentity(ensured[a].identity, TRUE).kind # "identity"

\* C28: what a call that fell back to a random keypair returns tells the caller
\* so: it carries more than the two keys.
C28_FallbackSignalled ==
    \A a \in 1..Len(ensured) :
        FellBack(a) =>
            DOMAIN ensured[a].returned # {"kind", "publicKeyB64", "secretKeyB64"}

\* ------------------------------------------------- a transfer that fails midway

\* the errors createTransaction rethrows as they are: a message and nothing else
PlainErrors ==
    {ErrRecipientRequired, ErrAmountNotPositive, ErrSdkUnavailable, ErrIdentityNotFound,
     InsufficientBalance, ErrNoSpendableNotes, ErrInvalidNote, ErrNoteTooSmall, ErrUpstream}

\* C30: when a step of a multi-note transfer fails after earlier steps have
\* completed, the caller is given more than the error of the failed step: the
\* outcome names the steps completed and the amount still owed.
C30_FailureReportsProgress ==
    (pc = "failed" /\ Len(selectedNotes) > 1 /\ Len(results) >= 1) =>
        outcome \notin PlainErrors

\* ------------------------------------------------------- deposits
\* src/services/CipherPayService.js, createDeposit and its onNoteReady callback

MaxDeposits == 2

ErrAmountRequired == "Amount is required"
ErrTokenMintRequired == "Token mint address is required"
ErrSdkDepositUnavailable == "SDK deposit function not available"
ErrDepositUpstream == "SDK deposit failed"

DepositAmounts == {0, 25, 50}

\* the note the SDK creates for a deposit, and the message that carries it
DepositNote(d, atoms) == [deposit |-> d, amount |-> atoms]
NoteMessage(kind, note) == [kind |-> kind, note |-> note]

\* the call that runs, if one does
Running == deposits # <<>> /\ deposits[Len(deposits)].pc = "sdk"

\* createDeposit(params), up to the await of window.CipherPaySDK.deposit
CreateDeposit ==
    /\ ~Running /\ Len(deposits) < MaxDeposits
    /\ \E atoms \in DepositAmounts, tokenMint \in BOOLEAN, sdkAvailable \in BOOLEAN,
          identityFound \in BOOLEAN :
         deposits' = Append(deposits,
            IF atoms = 0 \/ ~tokenMint \/ ~sdkAvailable \/ ~identityFound
            THEN [pc |-> "failed", amount |-> atoms, noteReady |-> FALSE,
                  outcome |-> IF atoms = 0 THEN ErrAmountRequired
                              ELSE IF ~tokenMint THEN ErrTokenMintRequired
                              ELSE IF ~sdkAvailable THEN ErrSdkDepositUnavailable
                              ELSE ErrIdentityNotFound]
            ELSE [pc |-> "sdk", amount |-> atoms, noteReady |-> FALSE,
                  outcome |-> NoError])
    /\ UNCHANGED published
    /\ UNCHANGED <<vars, storeVars, e2eeVars, reconcileVars, concurrentVars>>
    /\ UNCHANGED <<fetchVars, keypairVars>>
    /\ UNCHANGED lateVars

\* the SDK calls onNoteReady(note): the note is encrypted and posted once; a
\* failing key look-up, a refusing relay and a network error are logged and
\* swallowed
OnNoteReady ==
    /\ Running /\ ~deposits[Len(deposits)].noteReady
    /\ \E attempt \in {"stored", "refused", "networkError", "keyError"} :
         published' =
             IF attempt = "stored"
             THEN published \cup
                    {NoteMessage("note-deposit",
                                 DepositNote(Len(deposits), deposits[Len(deposits)].amount))}
             ELSE published
    /\ deposits' = [deposits EXCEPT ![Len(deposits)].noteReady = TRUE]
    /\ UNCHANGED <<vars, storeVars, e2eeVars, reconcileVars, concurrentVars>>
    /\ UNCHANGED <<fetchVars, keypairVars>>
    /\ UNCHANGED lateVars

\* window.CipherPaySDK.deposit resolves after it has handed out the note
DepositCompletes ==
    /\ Running /\ deposits[Len(deposits)].noteReady
    /\ deposits' = [deposits EXCEPT ![Len(deposits)].pc = "done"]
    /\ UNCHANGED published
    /\ UNCHANGED <<vars, storeVars, e2eeVars, reconcileVars, concurrentVars>>
    /\ UNCHANGED <<fetchVars, keypairVars>>
    /\ UNCHANGED lateVars

\* window.CipherPaySDK.deposit rejects; the error is rethrown to the caller
DepositFails ==
    /\ Running
    /\ deposits' = [deposits EXCEPT ![Len(deposits)].pc = "failed",
                                    ![Len(deposits)].outcome = ErrDepositUpstream]
    /\ UNCHANGED published
    /\ UNCHANGED <<vars, storeVars, e2eeVars, reconcileVars, concurrentVars>>
    /\ UNCHANGED <<fetchVars, keypairVars>>
    /\ UNCHANGED lateVars

InitDeposit ==
    /\ Init /\ StoreIdle /\ E2eeIdle /\ ReconcileIdle /\ ConcurrentIdle
    /\ FetchIdle /\ KeypairIdle /\ PublishIdle /\ LateIdle

NextDeposit == CreateDeposit \/ OnNoteReady \/ DepositCompletes \/ DepositFails

SpecDeposit == InitDeposit /\ [][NextDeposit]_allVars

\* C29: a deposit that has completed successfully has its note in the relay's
\* message store.
C29_CreatedNotePublished ==
    \A d \in 1..Len(deposits) :
        deposits[d].pc = "done" =>
            NoteMessage("note-deposit", DepositNote(d, deposits[d].amount)) \in published

\* ------------------------------------------------- what the recipient is given

\* the amounts assigned to the recipient's outputs by the steps before step k
RECURSIVE DeliveredBefore(_)
DeliveredBefore(k) ==
    IF k <= 1 THEN 0 ELSE submitted[k - 1].recipientAmount + DeliveredBefore(k - 1)

\* C31: in a multi-note transfer the owed counter is A minus the total assigned
\* to the recipient's outputs by the completed steps, so that a completed
\* transfer has assigned exactly A to the recipient.
C31_DeliveredSumsToAmount ==
    MultiNotePlan =>
        /\ remainingAmount = amount - DeliveredBefore(Len(results) + 1)
        /\ pc = "done" => DeliveredBefore(Len(submitted) + 1) = amount

\* C37: both outputs of every step handed to the SDK are strictly positive.
C37_OutputsPositive ==
    \A step \in Steps : step.out1.atoms > 0 /\ step.out2.atoms > 0

\* ------------------------------------------------- the keypair and the identity

\* the stored identity carries a scalar other than 0
UsableIdentity(stored) ==
    /\ GetCipherPayIdentity(stored, TRUE).kind = "identity"
    /\ GetCipherPayIdentity(stored, TRUE).privKey # 0

\* C33: a call made while an identity with a usable scalar is stored returns
\* the keypair derived from that scalar, whatever the key store holds.
C33_DerivedWhenIdentityStored ==
    \A a \in 1..Len(ensured) :
        (ensured[a].storageWorks /\ UsableIdentity(ensured[a].identity)) =>
            /\ ~ensured[a].threw
            /\ ensured[a].returned =
                 DeriveKeypairFromIdentity(
                     GetCipherPayIdentity(ensured[a].identity, TRUE).privKey)

\* C40: a call that returns hands out two keys of 32 bytes and leaves exactly
\* that keypair in the key store; the call that follows it on a readable store
\* returns the same keypair.
C40_ReturnedKeypairStored ==
    \A a \in 1..Len(ensured) :
        ~ensured[a].threw =>
            /\ ensured[a].returned.publicKeyB64.kind = "b64"
            /\ ensured[a].returned.secretKeyB64.kind = "b64"
            /\ ensured[a].returned.publicKeyB64.u8.len = KeyLength
            /\ ensured[a].returned.secretKeyB64.u8.len = KeyLength
            /\ ensured[a].after = JsonText(ensured[a].returned)
            /\ (a < Len(ensured) /\ ensured[a + 1].storageWorks) =>
                  /\ ~ensured[a + 1].threw
                  /\ ensured[a + 1].returned = ensured[a].returned

\* a call found keys of 16 bytes and no identity, stored a fresh keypair and
\* returned it; the next call returned the same keypair
C40_Witness ==
    /\ Len(ensured) = 2
    /\ ensured[1].before =
         JsonText(KeypairB64(U8ToB64(JunkBytes(16)), U8ToB64(JunkBytes(16))))
    /\ ensured[1].identity = StoreAbsent
    /\ ~ensured[1].threw
    /\ ensured[1].after = JsonText(ensured[1].returned)
    /\ ensured[1].returned.secretKeyB64.u8.len = KeyLength
    /\ ~ensured[2].threw
    /\ ensured[2].returned = ensured[1].returned

\* ------------------------------------------------- whose request a call shares

\* C34: a call made under a token is answered by a request that carried that
\* token.
C34_ResultUnderOwnToken ==
    \A c \in 1..Len(fetchCalls) :
        fetchCalls[c].promise # 0 =>
            requests[fetchCalls[c].promise].token = fetchCalls[c].token

\* C35: the Map holds only requests that have not settled.
C35_MapHoldsUnsettledOnly ==
    \A e \in inFlightRequests : requests[e.promise].state # "settled"

\* ------------------------------------------------- event monitoring (SSE)
\* startEventMonitoring, stopEventMonitoring and destroy of CipherPayService,
\* with the EventSource each start creates. An EventSource is CONNECTING, then
\* OPEN; after a connection error the browser either reconnects (CONNECTING
\* again) or gives up (CLOSED); close() makes it CLOSED, and a CLOSED
\* EventSource delivers no further event.
MaxStreams == 3

Connecting == "CONNECTING"
Open == "OPEN"
Closed == "CLOSED"

\* `${serverUrl}/stream?recipientKey=...` with &token=... when a token is stored
StreamUrl(recipientKey, token) == [recipientKey |-> recipientKey, token |-> token]

EventSource(url) == [url |-> url, readyState |-> Connecting]

OpenStreams == {e \in 1..Len(streams) : streams[e].readyState # Closed}

\* startEventMonitoring without its first guard
StartEventMonitoringUnguarded ==
    /\ Len(streams) < MaxStreams
    /\ \E recipientKey \in Keys \cup {NoKey}, token \in Tokens \cup {NoToken},
          constructorThrows \in BOOLEAN :
        IF recipientKey = NoKey
        THEN UNCHANGED monitorVars
        ELSE IF constructorThrows
        THEN /\ eventMonitoringActive' = FALSE
             /\ UNCHANGED <<stopEventStream, streams>>
        ELSE /\ eventMonitoringActive' = TRUE
             /\ streams' = Append(streams, EventSource(StreamUrl(recipientKey, token)))
             /\ stopEventStream' = Len(streams) + 1
    /\ UNCHANGED <<vars, storeVars, e2eeVars, reconcileVars, concurrentVars>>
    /\ UNCHANGED <<fetchVars, keypairVars, publishVars, overviewVars, refreshVars>>

\* startEventMonitoring(recipientKey): it has no await, so it runs as one step.
\* It returns at once when monitoring is active or the key is missing; it sets
\* the flag, creates the EventSource and keeps its close() in stopEventStream;
\* when the constructor throws, the catch clears the flag.
StartEventMonitoring ==
    /\ Len(streams) < MaxStreams
    /\ \E recipientKey \in Keys \cup {NoKey}, token \in Tokens \cup {NoToken},
          constructorThrows \in BOOLEAN :
        IF eventMonitoringActive \/ recipientKey = NoKey
        THEN UNCHANGED monitorVars
        ELSE IF constructorThrows
        THEN /\ eventMonitoringActive' = FALSE
             /\ UNCHANGED <<stopEventStream, streams>>
        ELSE /\ eventMonitoringActive' = TRUE
             /\ streams' = Append(streams, EventSource(StreamUrl(recipientKey, token)))
             /\ stopEventStream' = Len(streams) + 1
    /\ UNCHANGED <<vars, storeVars, e2eeVars, reconcileVars, concurrentVars>>
    /\ UNCHANGED <<fetchVars, keypairVars, publishVars, overviewVars, refreshVars>>

\* eventSource.close() of the stream stopEventStream refers to
CloseStream(ref) ==
    IF ref = 0
    THEN streams
    ELSE [streams EXCEPT ![ref] = [@ EXCEPT !.readyState = Closed]]

\* what stopEventMonitoring does to the three fields
StopEffects ==
    IF ~eventMonitoringActive
    THEN UNCHANGED monitorVars
    ELSE /\ streams' = CloseStream(stopEventStream)
         /\ stopEventStream' = 0
         /\ eventMonitoringActive' = FALSE

StopEventMonitoring ==
    /\ StopEffects
    /\ UNCHANGED <<vars, storeVars, e2eeVars, reconcileVars, concurrentVars>>
    /\ UNCHANGED <<fetchVars, keypairVars, publishVars, overviewVars, refreshVars>>

\* destroy(): stopEventMonitoring, then the SDK handle is dropped (the handle
\* is not part of the monitoring state)
Destroy ==
    /\ StopEffects
    /\ UNCHANGED <<vars, storeVars, e2eeVars, reconcileVars, concurrentVars>>
    /\ UNCHANGED <<fetchVars, keypairVars, publishVars, overviewVars, refreshVars>>

\* the connection of a stream is established
StreamOpens ==
    /\ \E e \in 1..Len(streams) :
        /\ streams[e].readyState = Connecting
        /\ streams' = [streams EXCEPT ![e] = [@ EXCEPT !.readyState = Open]]
    /\ UNCHANGED <<eventMonitoringActive, stopEventStream>>
    /\ UNCHANGED <<vars, storeVars, e2eeVars, reconcileVars, concurrentVars>>
    /\ UNCHANGED <<fetchVars, keypairVars, publishVars, overviewVars, refreshVars>>

\* eventSource.onerror: the browser reconnects (readyState CONNECTING, the
\* handler only logs) or has given up (readyState CLOSED, the handler clears
\* the flag and leaves stopEventStream as it is)
StreamError ==
    /\ \E e \in 1..Len(streams), fatal \in BOOLEAN :
        /\ streams[e].readyState # Closed
        /\ IF fatal
           THEN /\ streams' = [streams EXCEPT ![e] = [@ EXCEPT !.readyState = Closed]]
                /\ eventMonitoringActive' = FALSE
           ELSE /\ streams' = [streams EXCEPT ![e] = [@ EXCEPT !.readyState = Connecting]]
                /\ UNCHANGED eventMonitoringActive
    /\ UNCHANGED stopEventStream
    /\ UNCHANGED <<vars, storeVars, e2eeVars, reconcileVars, concurrentVars>>
    /\ UNCHANGED <<fetchVars, keypairVars, publishVars, overviewVars, refreshVars>>

InitMonitor ==
    /\ Init /\ StoreIdle /\ E2eeIdle /\ ReconcileIdle /\ ConcurrentIdle
    /\ FetchIdle /\ KeypairIdle /\ PublishIdle /\ LateIdle

NextMonitor ==
    \/ StartEventMonitoring
    \/ StopEventMonitoring
    \/ Destroy
    \/ StreamOpens
    \/ StreamError

SpecMonitor == InitMonitor /\ [][NextMonitor]_allVars

\* C39: at most one stream of the service is open, the flag is set whenever a
\* stream is open, a start while monitoring is active opens no stream, and a
\* stop (or destroy) leaves no stream open.
C39_OneStreamWhileActive ==
    /\ [](Cardinality(OpenStreams) <= 1)
    /\ [](OpenStreams # {} => eventMonitoringActive)
    /\ [][eventMonitoringActive => Len(streams') <= Len(streams)]_allVars
    /\ [][(StopEventMonitoring \/ Destroy) =>
            \A e \in 1..Len(streams') : streams'[e].readyState = Closed]_allVars

\* a second stream is open and monitored after the first one failed for good
C39_Witness ==
    /\ Len(streams) >= 2
    /\ streams[1].readyState = Closed
    /\ streams[Len(streams)].readyState = Open
    /\ eventMonitoringActive
    /\ stopEventStream = Len(streams)

\* ------------------------------------------- context refresh (React state)
\* updateServiceStatus of CipherPayContext.jsx. refreshData calls it, and so
\* does the timer createTransfer sets one second after a transfer; nothing
\* orders two calls. The backend's data (relay messages, nullifier status) is
\* abstracted to a version number that grows with every change; a response
\* carries the version the backend had when it answered.
MaxRefreshes == 2
MaxVersions == 2

\* values the three pieces of context state can hold
Unset == [kind |-> "unset"]
EmptyList == [kind |-> "empty"]
SdkNotes == [kind |-> "sdkNotes"]
\* an account overview: messages as the relay returned them, spent flags as
\* POST /api/v1/account/overview returned them
BackendOverview(messagesVersion, nullifiersVersion) ==
    [kind |-> "overview", messages |-> messagesVersion, nullifiers |-> nullifiersVersion]
\* the overview of an account without notes (no second request is made)
NoNotesOverview == BackendOverview(0, 0)

\* setBalance, setSpendableNotes and setAllNotes of one run with one overview
SetFromOverview(run, overview) ==
    [balance |-> overview, spendableNotes |-> overview, allNotes |-> overview, by |-> run]

\* the runs waiting for fetchMessages: they share one in-flight request,
\* because every run asks for the same URL
AwaitingMessages == {r \in 1..Len(refreshRuns) : refreshRuns[r].pc = "messages"}

LastOf(runSet) == CHOOSE r \in runSet : \A q \in runSet : q <= r

\* updateServiceStatus up to its first await. getServiceStatus is async and is
\* called without await, so status is a promise: it is truthy and its
\* isConnected, publicAddress and balance are undefined, which skips the three
\* setters that depend on them. With a token the run awaits the backend
\* overview, without one it goes to the fallback.
UpdateServiceStatus ==
    /\ Len(refreshRuns) < MaxRefreshes
    /\ \E isInitialized \in BOOLEAN, isAuthTokenPresent \in BOOLEAN :
        IF ~isInitialized
        THEN UNCHANGED refreshRuns
        ELSE refreshRuns' = Append(refreshRuns,
                [pc |-> IF isAuthTokenPresent THEN "messages" ELSE "spendable",
                 messages |-> 0])
    /\ UNCHANGED <<backendVersion, contextState>>
    /\ UNCHANGED <<vars, storeVars, e2eeVars, reconcileVars, concurrentVars>>
    /\ UNCHANGED <<fetchVars, keypairVars, publishVars, overviewVars, monitorVars>>

\* a message is stored by the relay or a nullifier is spent on chain
BackendChanges ==
    /\ backendVersion < MaxVersions
    /\ backendVersion' = backendVersion + 1
    /\ UNCHANGED <<refreshRuns, contextState>>
    /\ UNCHANGED <<vars, storeVars, e2eeVars, reconcileVars, concurrentVars>>
    /\ UNCHANGED <<fetchVars, keypairVars, publishVars, overviewVars, monitorVars>>

\* the shared fetchMessages request resolves. With notes every waiting run
\* sends its own POST /api/v1/account/overview; without notes
\* fetchAccountOverview returns the empty overview and every waiting run sets
\* the state, in the order in which the runs joined.
MessagesArrive ==
    /\ AwaitingMessages # {}
    /\ IF backendVersion = 0
       THEN /\ refreshRuns' = [r \in 1..Len(refreshRuns) |->
                    IF r \in AwaitingMessages
                    THEN [refreshRuns[r] EXCEPT !.pc = "done"]
                    ELSE refreshRuns[r]]
            /\ contextState' = SetFromOverview(LastOf(AwaitingMessages), NoNotesOverview)
       ELSE /\ refreshRuns' = [r \in 1..Len(refreshRuns) |->
                    IF r \in AwaitingMessages
                    THEN [pc |-> "overview", messages |-> backendVersion]
                    ELSE refreshRuns[r]]
            /\ UNCHANGED contextState
    /\ UNCHANGED backendVersion
    /\ UNCHANGED <<vars, storeVars, e2eeVars, reconcileVars, concurrentVars>>
    /\ UNCHANGED <<fetchVars, keypairVars, publishVars, overviewVars, monitorVars>>

\* POST /api/v1/account/overview of one run resolves: the run sets balance,
\* spendableNotes and allNotes and returns.
OverviewArrives ==
    /\ \E r \in 1..Len(refreshRuns) :
        /\ refreshRuns[r].pc = "overview"
        /\ refreshRuns' = [refreshRuns EXCEPT ![r].pc = "done"]
        /\ contextState' =
            SetFromOverview(r, BackendOverview(refreshRuns[r].messages, backendVersion))
    /\ UNCHANGED backendVersion
    /\ UNCHANGED <<vars, storeVars, e2eeVars, reconcileVars, concurrentVars>>
    /\ UNCHANGED <<fetchVars, keypairVars, publishVars, overviewVars, monitorVars>>

\* one of the two backend requests of a run fails: the catch logs, and the run
\* goes on with the fallback (status.balance is undefined, so no setBalance).
OverviewFails ==
    /\ \E r \in 1..Len(refreshRuns) :
        /\ refreshRuns[r].pc \in {"messages", "overview"}
        /\ refreshRuns' = [refreshRuns EXCEPT ![r].pc = "spendable"]
    /\ UNCHANGED <<backendVersion, contextState>>
    /\ UNCHANGED <<vars, storeVars, e2eeVars, reconcileVars, concurrentVars>>
    /\ UNCHANGED <<fetchVars, keypairVars, publishVars, overviewVars, monitorVars>>

\* fallback: await getSpendableNotes() resolves (the unspent notes of a new
\* backend overview, or [] when that failed), then setSpendableNotes
SpendableNotesArrive ==
    /\ \E r \in 1..Len(refreshRuns), failed \in BOOLEAN :
        /\ refreshRuns[r].pc = "spendable"
        /\ refreshRuns' = [refreshRuns EXCEPT ![r].pc = "allNotes"]
        /\ contextState' = [contextState EXCEPT
                !.spendableNotes = IF failed THEN EmptyList
                                   ELSE BackendOverview(backendVersion, backendVersion),
                !.by = r]
    /\ UNCHANGED backendVersion
    /\ UNCHANGED <<vars, storeVars, e2eeVars, reconcileVars, concurrentVars>>
    /\ UNCHANGED <<fetchVars, keypairVars, publishVars, overviewVars, monitorVars>>

\* fallback: await getAllNotes() resolves (the SDK's notes, or [] when the SDK
\* threw), then setAllNotes
AllNotesArrive ==
    /\ \E r \in 1..Len(refreshRuns), failed \in BOOLEAN :
        /\ refreshRuns[r].pc = "allNotes"
        /\ refreshRuns' = [refreshRuns EXCEPT ![r].pc = "done"]
        /\ contextState' = [contextState EXCEPT
                !.allNotes = IF failed THEN EmptyList ELSE SdkNotes,
                !.by = r]
    /\ UNCHANGED backendVersion
    /\ UNCHANGED <<vars, storeVars, e2eeVars, reconcileVars, concurrentVars>>
    /\ UNCHANGED <<fetchVars, keypairVars, publishVars, overviewVars, monitorVars>>

InitRefresh ==
    /\ Init /\ StoreIdle /\ E2eeIdle /\ ReconcileIdle /\ ConcurrentIdle
    /\ FetchIdle /\ KeypairIdle /\ PublishIdle /\ OverviewIdle /\ MonitorIdle
    /\ backendVersion = 0
    /\ refreshRuns = <<>>
    /\ contextState = [balance |-> Unset, spendableNotes |-> Unset, allNotes |-> Unset, by |-> 0]

NextRefresh ==
    \/ UpdateServiceStatus
    \/ BackendChanges
    \/ MessagesArrive
    \/ OverviewArrives
    \/ OverviewFails
    \/ SpendableNotesArrive
    \/ AllNotesArrive

SpecRefresh == InitRefresh /\ [][NextRefresh]_allVars

\* C36: the context state is only ever replaced by a run that started no
\* earlier than the run whose values it holds, so a slower run that started
\* earlier never overwrites the values of a run that started later.
C36_LaterStartedRunWins ==
    [][contextState'.by >= contextState.by]_allVars

\* ------------------------------------------------ overview and relay pages
\* fetchAccountOverview against a relay that pages its answer: GET
\* /api/v1/messages returns the messages offset+1 .. offset+limit of those it
\* holds for the user, together with their total number.
\* const { limit = 100, offset = 0 } = options
DefaultLimit == 100
DefaultOffset == 0

\* the limits a caller passes in options, and the default
PageLimits == {1, 2, DefaultLimit}
PageOffsets == {DefaultOffset, 1}

\* the relay's answer to one fetchMessages call
RelayPage(held, limit, offset) ==
    [ok |-> TRUE,
     messages |-> SubSeq(held, offset + 1,
                         IF offset + limit < Len(held) THEN offset + limit ELSE Len(held)),
     total |-> Len(held),
     limit |-> limit,
     offset |-> offset]

\* fetchAccountOverview(options): one fetchMessages call with the caller's
\* limit and offset (or the defaults), decryptMessages on the messages of that
\* answer, computeAccountOverview on the notes; total is only logged.
FetchAccountOverviewPage ==
    /\ Len(overviews) < MaxRuns
    /\ \E limit \in PageLimits, offset \in PageOffsets, freshSeed \in 1..MaxFreshSeed :
        \E page \in {RelayPage(relayHeld, limit, offset)} :
          \E out \in {FetchAccountOverview(page, serviceAnswer, keyStore,
                                           identityStore, freshSeed)} :
            /\ relayAnswer' = page
            /\ overviews' = Append(overviews, out.overview)
            /\ keyStore' = out.store
    /\ UNCHANGED <<identityStore, serviceAnswer, decryptedNotes>>
    /\ UNCHANGED <<vars, e2eeVars, concurrentVars>>
    /\ UNCHANGED <<fetchVars, keypairVars, publishVars, relayHeld>>
    /\ UNCHANGED <<accountOverview, refreshVars, monitorVars>>

InitPaging ==
    /\ Init /\ E2eeIdle /\ ConcurrentIdle
    /\ FetchIdle /\ KeypairIdle /\ PublishIdle /\ RefreshIdle /\ MonitorIdle
    /\ accountOverview = NotCalled
    /\ keyStore \in ReconcileKeyStores
    /\ identityStore \in ReconcileIdentityStores
    /\ relayHeld \in Batches(ValidCiphertexts)
    /\ serviceAnswer \in {ServiceDown, ServiceUp({}), ServiceUp({NoteForApi(FirstNote)})}
    /\ relayAnswer = NotCalled
    /\ decryptedNotes = NotCalled
    /\ overviews = <<>>

NextPaging == FetchAccountOverviewPage

SpecPaging == InitPaging /\ [][NextPaging]_allVars

\* the notes decryptMessages recovers from every message the relay holds
NotesHeld == DecryptMessages(relayHeld, keyStore, identityStore, 1).notes

\* C38: an overview fetched from the first page (offset 0) accounts for the
\* notes of every message the relay holds, also when the relay holds more
\* messages than the page limit returns.
C38_OverviewCoversAllHeld ==
    (/\ overviews # <<>>
     /\ relayAnswer.offset = DefaultOffset
     /\ overviews[Len(overviews)].kind = "overview")
        => overviews[Len(overviews)].totalNotes = Len(NotesHeld)

\* ------------------------------------------- spendable notes of a transfer
\* getSpendableNotes on the overview of the backend, and the selection of
\* createTransaction on its result. A note carries as id its position in the
\* overview.
OverviewAmounts == {10, 25, 30}

OverviewEntry(a, spent) ==
    [note |-> [ownerCipherPayPubKey |-> SenderKey], isSpent |-> spent, amount |-> a]

\* the overviews getAccountOverviewFromBackend can resolve with
AccountOverviews ==
    {[kind |-> "overview", notes |-> entries] :
        entries \in UNION {[1..len -> {OverviewEntry(a, spent) :
                                         a \in OverviewAmounts, spent \in BOOLEAN}] :
                           len \in 0..MaxNotes}}

Positions(overview) == [k \in 1..Len(overview.notes) |-> k]

\* getSpendableNotes without its filter
GetSpendableNotesUnfiltered(overview) ==
    IF overview.kind # "overview" THEN <<>>
    ELSE [j \in 1..Len(overview.notes) |-> Note(j, overview.notes[j].amount)]

\* getSpendableNotes: (overview.notes || []).filter(n => !n.isSpent), each
\* entry mapped to the note createTransaction expects; [] when the overview
\* could not be fetched
GetSpendableNotes(overview) ==
    IF overview.kind # "overview" THEN <<>>
    ELSE LET kept == SelectSeq(Positions(overview),
                                  LAMBDA k : ~overview.notes[k].isSpent)
         IN [j \in 1..Len(kept) |-> Note(kept[j], overview.notes[kept[j]].amount)]

\* createTransaction from the await of getSpendableNotes to the end of the
\* selection, with the overview the backend resolved with (or its failure)
SelectNotesFromOverview ==
    /\ pc = "fetching"
    /\ \E overview \in AccountOverviews \cup {[kind |-> "raised"]} :
        /\ accountOverview' = overview
        /\ relayFailed' = (overview.kind = "raised")
        /\ spendable' = GetSpendableNotes(overview)
        /\ LET sel == SelectFromSpendable(GetSpendableNotes(overview), amount)
           IN IF sel.error # NoError
              THEN Throw(sel.error) /\ UNCHANGED <<selectedNotes, remainingAmount>>
              ELSE /\ selectedNotes' = sel.selectedNotes
                   /\ remainingAmount' =
                        IF Len(sel.selectedNotes) > 1 THEN amount ELSE remainingAmount
                   /\ pc' = "selected"
                   /\ UNCHANGED outcome
    /\ UNCHANGED <<recipientPublicKey, amount, inputNote, i, submitted, results>>
    /\ UNCHANGED <<storeVars, e2eeVars, reconcileVars, concurrentVars>>
    /\ UNCHANGED <<fetchVars, keypairVars, publishVars, relayHeld, refreshVars, monitorVars>>

NextSpendable ==
    \/ CreateTransaction
    \/ SelectNotesFromOverview
    \/ ExecuteSingleTransfer
    \/ TransferCompletes
    \/ TransferFails

SpecSpendable == InitTransfer /\ [][NextSpendable]_allVars

UnspentEntries(overview) == {k \in 1..Len(overview.notes) : ~overview.notes[k].isSpent}

\* C32: the list getSpendableNotes returned holds exactly the entries of the
\* overview with isSpent false, in the overview's order, and every note
\* createTransaction selected or handed to the SDK without an explicit
\* inputNote is one of that list, so none of them is spent in the overview.
C32_OnlyUnspentSelected ==
    accountOverview.kind = "overview" =>
        /\ Len(spendable) = Cardinality(UnspentEntries(accountOverview))
        /\ \A j \in 1..Len(spendable) :
            /\ spendable[j].id \in UnspentEntries(accountOverview)
            /\ spendable[j].amount = accountOverview.notes[spendable[j].id].amount
            /\ \A h \in 1..(j - 1) : spendable[h].id < spendable[j].id
        /\ \A k \in 1..Len(selectedNotes) :
            /\ \E j \in 1..Len(spendable) : spendable[j] = selectedNotes[k]
            /\ ~accountOverview.notes[selectedNotes[k].id].isSpent
        /\ \A t \in 1..Len(submitted) :
            /\ \E j \in 1..Len(spendable) : spendable[j] = submitted[t].inputNote
            /\ ~accountOverview.notes[submitted[t].inputNote.id].isSpent

\* a transfer over two notes was handed to the SDK from an overview that also
\* holds a spent note
C32_Witness ==
    /\ accountOverview.kind = "overview"
    /\ \E k \in 1..Len(accountOverview.notes) : accountOverview.notes[k].isSpent
    /\ Len(selectedNotes) = 2
    /\ Len(submitted) = 2
    /\ pc = "done"

====
